---- MODULE Spec2Model ----
(***************************************************************************)
(* Receipt pipeline of marcinparda/actual: the sync-server receipt store   *)
(* (upload / process / retrieve / delete handlers), the receipt processor  *)
(* (normalization of the model's JSON) and the commit of the mobile review *)
(* screen (handleSave).                                                     *)
(*                                                                         *)
(* Strings whose structure the code inspects (file names, identifiers,     *)
(* extensions, merchant names, dates) are sequences of one-character       *)
(* strings, so that startsWith / includes / extname / toLowerCase are      *)
(* computed the way the code computes them.                                *)
(***************************************************************************)
EXTENDS Integers, Sequences, FiniteSets, TLC

VARIABLES
    \* ---- sync-server receipt store ----
    files,          \* the directory receiptStoragePath: set of [name, bytes, size]
    bootstrapped,   \* ~needsBootstrap()
    uuidCount,      \* number of crypto.randomUUID() values drawn so far
    last,           \* history: the last request and its response
    accepted,       \* history: uploads answered 200 ok, [fileId, name, bytes]
    lastDeleted,    \* history: the fileId last deleted with 200 ok, no file stored since
    \* ---- review screen commit (one entry per client session) ----
    payeeStore,     \* the shared payee table, a sequence of [id, name, by]
    expenses,       \* useState expenses of each session
    payees,         \* usePayees() as captured by the render handleSave ran in
    pc,             \* where each session's handleSave is
    idx,            \* loop position of handleSave
    transactionsToAdd,
    loading,
    error,
    createReqs,     \* history: loop positions for which payee-create was sent
    batchReqs,      \* history: transactions-batch-update requests sent, per session
    \* ---- review screen session (one entry per client session) ----
    route,          \* useParams / useSearchParams: [fileId, accountId], and the
                    \* identity of the list useCategories() returns
    processing,     \* useState processing
    fullReceiptUrl, \* useState fullReceiptUrl
    answer,         \* the answer to the session's POST /receipt/process
    retried,        \* history: what the last press of Retry found and started
    deleteReqs,     \* history: fileIds of the DELETE requests each session sent
    apiCalls,       \* the last call of each receipt API function and its outcome
    \* ---- receipt processor ----
    parsedData,     \* JSON.parse(jsonMatch[0])
    result,         \* what processReceipt returned (or that it threw)
    content,        \* response.choices[0]?.message?.content
    parsed          \* outcome of the JSON extraction: [status, jsonMatch]

storeVars   == <<files, bootstrapped, uuidCount, last, accepted, lastDeleted>>
sessionVars == <<route, processing, fullReceiptUrl, answer, retried, deleteReqs, apiCalls>>
commitVars  == <<payeeStore, expenses, payees, pc, idx, transactionsToAdd, loading,
                 error, createReqs, batchReqs, sessionVars>>
extractVars == <<parsedData, result, content, parsed>>
vars        == <<storeVars, commitVars, extractVars>>

(***************************************************************************)
(* String helpers (JavaScript String / node:path semantics)                *)
(***************************************************************************)
EmptyString == <<>>

StartsWith(s, p) == Len(p) <= Len(s) /\ SubSeq(s, 1, Len(p)) = p

Includes(s, p) == \E i \in 1..(Len(s) - Len(p) + 1) : SubSeq(s, i, i + Len(p) - 1) = p

LowerChar(c) ==
    CASE c = "J" -> "j" [] c = "P" -> "p" [] c = "N" -> "n" [] c = "G" -> "g"
      [] c = "C" -> "c" [] c = "A" -> "a" [] c = "F" -> "f" [] c = "E" -> "e"
      [] c = "D" -> "d" [] c = "L" -> "l" [] c = "I" -> "i"
      [] OTHER -> c

ToLowerCase(s) == [i \in 1..Len(s) |-> LowerChar(s[i])]

Digits == {"0", "1", "2", "3", "4", "5", "6", "7", "8", "9"}

\* index of the last "." of s, 0 when there is none
LastDot(s) ==
    LET dots == {i \in 1..Len(s) : s[i] = "."}
    IN  IF dots = {} THEN 0 ELSE CHOOSE i \in dots : \A j \in dots : j <= i

\* path.extname: from the last "." to the end; "" when there is no "." or the
\* only "." is the first character
ExtName(f) ==
    LET d == LastDot(f) IN IF d <= 1 THEN EmptyString ELSE SubSeq(f, d, Len(f))

\* path.basename(f, path.extname(f))
NameWithoutExt(f) == SubSeq(f, 1, Len(f) - Len(ExtName(f)))

(***************************************************************************)
(* Bounds and input alphabets of the receipt store                         *)
(***************************************************************************)
MaxUploads == 2     \* file names generated in one run
MaxSizeMB  == 1     \* config.get('receipt.maxSizeMB')

UNDERSCORE == <<"_">>
DOT        == <<".">>
Anonymous  == <<"a", "n", "o", "n", "y", "m", "o", "u", "s">>
Timestamps == {<<"1">>}                                \* Date.now()
UuidDigit  == <<"1", "2", "3", "4">>
Uuid(n)    == <<"e", UuidDigit[n]>>                     \* the n-th crypto.randomUUID()

ExtJpg  == <<".", "j", "p", "g">>
ExtJpeg == <<".", "j", "p", "e", "g">>
ExtPng  == <<".", "p", "n", "g">>
ExtGif  == <<".", "g", "i", "f">>
ExtWebp == <<".", "w", "e", "b", "p">>
ExtHeic == <<".", "h", "e", "i", "c">>
ExtHeif == <<".", "h", "e", "i", "f">>
ExtTxt  == <<".", "t", "x", "t">>
ExtPNG  == <<".", "P", "N", "G">>

\* what a client can send in the multipart field `receipt`: an image type
\* with any extension, within the size limit or (as .jpg) beyond it, or
\* another type
OrigExts == {ExtJpg, ExtPNG, ExtTxt}                   \* path.extname(file.originalname)
Payloads == {[bytes |-> "b1", size |-> 1],
             [bytes |-> "b2", size |-> 1],
             [bytes |-> "b3", size |-> MaxSizeMB + 1]}
NoPart   == [mimetype |-> "", ext |-> EmptyString, bytes |-> "", size |-> 0]
Parts    == {part \in {[mimetype |-> "image/jpeg", ext |-> x, bytes |-> p.bytes,
                          size |-> p.size] : x \in OrigExts, p \in Payloads} :
                part.size <= MaxSizeMB \/ part.ext = ExtJpg}
            \cup {[mimetype |-> "text/plain", ext |-> ExtJpg, bytes |-> "b1", size |-> 1]}

allowedMimes == {"image/jpeg", "image/png", "image/gif", "image/webp",
                 "image/heic", "image/heif"}

validExtensions == {ExtJpg, ExtJpeg, ExtPng, ExtGif, ExtWebp, ExtHeic, ExtHeif}

contentTypeMap(ext) ==
    CASE ext = ExtJpg  -> "image/jpeg"
      [] ext = ExtJpeg -> "image/jpeg"
      [] ext = ExtPng  -> "image/png"
      [] ext = ExtGif  -> "image/gif"
      [] ext = ExtWebp -> "image/webp"
      [] ext = ExtHeic -> "image/heic"
      [] ext = ExtHeif -> "image/heif"
      [] OTHER         -> "application/octet-stream"

\* storage.filename: `${timestamp}_${userId}_${uuid}${ext}`
filename(ts, userId, uuid, ext) == ts \o UNDERSCORE \o userId \o UNDERSCORE \o uuid \o ext

\* upload handler: path.basename(filePath, path.extname(filePath))
FileIdKeepsExt(filePath) == filePath
FileIdOf(filePath) == NameWithoutExt(filePath)

\* validateReceiptImage(filePath, maxSizeMB) on a file that exists
validateReceiptImage(f, maxSizeMB) ==
    IF f.size > maxSizeMB THEN "too-large"
    ELSE IF ToLowerCase(ExtName(f.name)) \notin validExtensions THEN "bad-extension"
    ELSE "valid"

\* lookup predicate of GET and DELETE
GetMatch(f, fileId) ==
    \/ NameWithoutExt(f) = fileId
    \/ Includes(NameWithoutExt(f), UNDERSCORE \o fileId)

\* lookup predicate of POST /process
ProcessMatch(f, fileId) ==
    \/ StartsWith(f, fileId \o DOT)
    \/ Includes(f, UNDERSCORE \o fileId \o DOT)

FileNames == {f.name : f \in files}

\* identifiers a client can put in a request: the exact identifiers of stored
\* or once-accepted files, and fragments of them
ProbeIds == {Anonymous, Uuid(1)}
ReqIds   == {NameWithoutExt(n) : n \in FileNames} \cup {a.fileId : a \in accepted}
            \cup ProbeIds

NoData == [status |-> "none"]
NoCase == [kind |-> "none", content |-> EmptyString]
NoLast == [op |-> "none", fileId |-> EmptyString, result |-> "", bootstrapped |-> TRUE,
           storeChanged |-> FALSE, modelInvoked |-> FALSE, selected |-> EmptyString,
           bytes |-> "", contentType |-> "", part |-> NoPart,
           message |-> "", data |-> NoData, case |-> NoCase,
           receiptUrl |-> EmptyString, extension |-> EmptyString]

(***************************************************************************)
(* Receipt store handlers (express router `handlers`)                      *)
(***************************************************************************)
\* upload.single('receipt'): the multer middleware runs before the route's
\* handler. fileFilter first, then storage.filename and the write, cut off by
\* limits.fileSize (multer removes the partial file and the handler is skipped).
multer(part) ==
    IF part = NoPart THEN "no-file"
    ELSE IF part.mimetype \notin allowedMimes THEN "invalid-file-type"
    ELSE IF part.size > MaxSizeMB THEN "file-too-large"
    ELSE "stored"

\* POST /receipt/upload
Upload(part, ts) ==
    /\ uuidCount < MaxUploads
    /\ LET m      == multer(part)
           f      == [name  |-> filename(ts, Anonymous, Uuid(uuidCount + 1), part.ext),
                      bytes |-> part.bytes, size |-> part.size]
           onDisk == IF m = "stored" THEN files \cup {f} ELSE files
           v      == validateReceiptImage(f, MaxSizeMB)
           res    == IF m \in {"invalid-file-type", "file-too-large"} THEN m
                     ELSE IF ~bootstrapped THEN "not-bootstrapped"
                     ELSE IF m = "no-file" THEN "no-file"
                     ELSE IF v # "valid" THEN "invalid-file"
                     ELSE "ok"
           after  == IF res = "invalid-file" THEN onDisk \ {f} ELSE onDisk   \* fs.unlinkSync
       IN  /\ files' = after
           /\ uuidCount' = IF m \in {"stored", "file-too-large"} THEN uuidCount + 1
                           ELSE uuidCount
           /\ accepted' = IF res = "ok"
                          THEN accepted \cup {[fileId |-> FileIdOf(f.name),
                                               name |-> f.name, bytes |-> f.bytes]}
                          ELSE accepted
           /\ lastDeleted' = IF after # files THEN EmptyString ELSE lastDeleted
           /\ last' = [NoLast EXCEPT !.op = "upload",
                          !.fileId = IF res = "ok" THEN FileIdOf(f.name) ELSE EmptyString,
                          !.result = res, !.bootstrapped = bootstrapped,
                          !.storeChanged = (after # files),
                          !.selected = IF m = "stored" THEN f.name ELSE EmptyString,
                          !.part = part]
    /\ UNCHANGED <<bootstrapped, commitVars, extractVars>>

\* GET /receipt/:fileId; files.find takes the first match in directory order,
\* which readdirSync leaves to the file system: any matching file
Retrieve(fileId) ==
    /\ LET matches == {f \in files : GetMatch(f.name, fileId)}
           base    == [NoLast EXCEPT !.op = "retrieve", !.fileId = fileId,
                                     !.bootstrapped = bootstrapped]
       IN  IF ~bootstrapped THEN last' = [base EXCEPT !.result = "not-bootstrapped"]
           ELSE IF matches = {} THEN last' = [base EXCEPT !.result = "file-not-found"]
           ELSE \E f \in matches :
                    last' = [base EXCEPT !.result = "ok", !.selected = f.name,
                                !.bytes = f.bytes,
                                !.contentType = contentTypeMap(ToLowerCase(ExtName(f.name)))]
    /\ UNCHANGED <<files, bootstrapped, uuidCount, accepted, lastDeleted,
                   commitVars, extractVars>>

\* DELETE /receipt/:fileId: the handler
DeleteHandlerUnlinksAll(fileId) ==
       LET matches == {f \in files : GetMatch(f.name, fileId)}
           base    == [NoLast EXCEPT !.op = "delete", !.fileId = fileId,
                                     !.bootstrapped = bootstrapped]
       IN  IF ~bootstrapped
           THEN /\ last' = [base EXCEPT !.result = "not-bootstrapped"]
                /\ UNCHANGED <<files, lastDeleted>>
           ELSE /\ files' = files \ matches
                /\ lastDeleted' = fileId
                /\ last' = [base EXCEPT !.result = "ok", !.storeChanged = TRUE]
DeleteHandler(fileId) ==
       LET matches == {f \in files : GetMatch(f.name, fileId)}
           base    == [NoLast EXCEPT !.op = "delete", !.fileId = fileId,
                                     !.bootstrapped = bootstrapped]
       IN  IF ~bootstrapped
           THEN /\ last' = [base EXCEPT !.result = "not-bootstrapped"]
                /\ UNCHANGED <<files, lastDeleted>>
           ELSE IF matches = {}
           THEN /\ last' = [base EXCEPT !.result = "file-not-found"]
                /\ UNCHANGED <<files, lastDeleted>>
           ELSE \E f \in matches :
                    /\ files' = files \ {f}                                  \* fs.unlinkSync
                    /\ lastDeleted' = fileId
                    /\ last' = [base EXCEPT !.result = "ok", !.selected = f.name,
                                   !.storeChanged = TRUE]

\* a DELETE request of any client
Delete(fileId) ==
    /\ DeleteHandler(fileId)
    /\ UNCHANGED <<bootstrapped, uuidCount, accepted, commitVars, extractVars>>

\* the account database gets its first login method: needsBootstrap() turns false
Bootstrap ==
    /\ ~bootstrapped
    /\ bootstrapped' = TRUE
    /\ UNCHANGED <<files, uuidCount, last, accepted, lastDeleted,
                   commitVars, extractVars>>

(***************************************************************************)
(* Receipt API functions of the client: uploadReceipt, processReceipt,     *)
(* deleteReceipt                                                           *)
(*                                                                         *)
(* A response is what fetch gives: it rejects, or resolves with response.ok*)
(* and a body that response.json() rejects, or parses to null or to an     *)
(* object with or without status, message and data.                        *)
(***************************************************************************)
ClientOps == {"upload", "process", "delete"}

Rejected == [fetch |-> "rejected", ok |-> FALSE, json |-> "none", status |-> "absent",
             message |-> "", data |-> "undefined"]
Responses ==
    {Rejected}
    \cup {[fetch |-> "resolved", ok |-> o, json |-> j, status |-> "absent",
           message |-> "", data |-> "undefined"] :
              o \in BOOLEAN, j \in {"rejects", "null"}}
    \cup {[fetch |-> "resolved", ok |-> o, json |-> "object", status |-> st,
           message |-> m, data |-> d] :
              o \in BOOLEAN, st \in {"ok", "error", "absent"},
              m \in {"", "unauthorized"}, d \in {"d1"}}

\* the response an answer of the server's handlers arrives as: 200 with
\* status 'ok', or an error status code with status 'error' and its reason
ResponseOf(res, data) ==
    IF res = "ok"
    THEN [fetch |-> "resolved", ok |-> TRUE, json |-> "object", status |-> "ok",
          message |-> "", data |-> data]
    ELSE [fetch |-> "resolved", ok |-> FALSE, json |-> "object", status |-> "error",
          message |-> res, data |-> "undefined"]

\* `${Op} failed` of the three functions
FailedText(op) ==
    CASE op = "upload"  -> "Upload failed"
      [] op = "process" -> "Processing failed"
      [] op = "delete"  -> "Delete failed"

\* `Failed to ${op} receipt: ` of the catch blocks
FailedPrefix(op) ==
    CASE op = "upload"  -> "Failed to upload receipt: "
      [] op = "process" -> "Failed to process receipt: "
      [] op = "delete"  -> "Failed to delete receipt: "

\* the body of the three functions: what the call returns, or the two parts
\* of the message of the error it throws
ClientCallTrustsTransport(op, r) ==
    IF r.fetch = "resolved" /\ r.ok
    THEN [kind |-> "returns", value |-> r.data, message |-> <<>>]
    ELSE [kind |-> "throws", value |-> "undefined",
          message |-> <<FailedPrefix(op), FailedText(op)>>]
ClientCall(op, r) ==
    LET throws(inner) == [kind |-> "throws", value |-> "undefined",
                          message |-> <<FailedPrefix(op), inner>>]
    IN  IF r.fetch = "rejected" THEN throws("fetch failed")
        ELSE IF ~r.ok
        THEN \* errorData?.message || `${Op} failed: ${response.statusText}`
             IF r.json = "object" /\ r.message # "" THEN throws(r.message)
             ELSE throws(FailedText(op))
        ELSE IF r.json = "rejects" THEN throws("Unexpected token")
        ELSE IF r.json = "null" THEN throws("Cannot read properties of null")
        ELSE IF r.status # "ok"
        THEN throws(IF r.message # "" THEN r.message ELSE FailedText(op))
        ELSE [kind |-> "returns",
              value |-> IF op = "delete" THEN "undefined" ELSE r.data,
              message |-> <<>>]

NoCall == [response |-> Rejected,
           outcome |-> [kind |-> "none", value |-> "undefined", message |-> <<>>]]

\* one of the three functions is called and the server, or whatever stands
\* between, answers
Call(op, r) ==
    /\ apiCalls' = [apiCalls EXCEPT ![op] = [response |-> r, outcome |-> ClientCall(op, r)]]
    /\ UNCHANGED <<storeVars, payeeStore, expenses, payees, pc, idx, transactionsToAdd,
                   loading, error, createReqs, batchReqs, route, processing,
                   fullReceiptUrl, answer, retried, deleteReqs, extractVars>>

ClientNext == \E op \in ClientOps, r \in Responses : Call(op, r)

(***************************************************************************)
(* Commit of the review screen: handleSave of ReceiptReview                *)
(*                                                                         *)
(* Two client sessions share one payee table. handleSave is taken as the   *)
(* commit operation on whatever expense list the session holds; whether    *)
(* the Save button lets the user reach it is a matter of the view.         *)
(***************************************************************************)
MaxExpenses == 2                  \* length of a session's expense list

Sessions  == {"A", "B"}
NoAccount == "undefined"
NoPayee   == "undefined"
NoError   == "null"
AccountError == "All expenses must have an account"
CreateError  == "payee-create failed"                   \* err.message of the rejected sends
BatchError   == "transactions-batch-update failed"

Cafe      == <<"C", "a", "f", "e">>
CafeLower == <<"c", "a", "f", "e">>
Date1     == <<"2", "0", "2", "4", "-", "0", "1", "-", "0", "1">>

Merchants == {EmptyString, Cafe, CafeLower}
PayeeIdPool == <<"p1", "p2", "p3", "p4", "p5", "p6">>   \* ids the payee table generates

\* EditableExpense values the sessions hold
EditableExpenses ==
    {[id |-> 0, amount |-> 1200, merchant |-> m, date |-> Date1, categoryId |-> "c1",
      categoryName |-> "Groceries", note |-> "milk", confidence |-> 92,
      account |-> a, payee |-> p] :
        m \in Merchants, a \in {NoAccount, "acc1"}, p \in {NoPayee, "p0"}}

\* lists of them as processReceiptFile numbers them
ExpenseLists ==
    UNION {{[i \in 1..n |-> [l[i] EXCEPT !.id = i - 1]] : l \in [1..n -> EditableExpenses]} :
              n \in 0..MaxExpenses}

\* session "A" holds any list up to MaxExpenses; session "B", the commit
\* running beside it, holds no expense or one
ShortLists == {<<>>} \cup {<<e>> : e \in EditableExpenses}
SessionLists ==
    {[s \in Sessions |-> IF s = "A" THEN a ELSE b] : a \in ExpenseLists, b \in ShortLists}

ServerUrl   == <<"h">>                                   \* useServerURL()
ReceiptPath == <<"/", "r", "e", "c", "e", "i", "p", "t", "/">>

\* processReceiptFile: `${serverUrl}${result.receiptUrl}${result.extension}`
FullUrl(serverUrl, receiptUrl, extension) == serverUrl \o receiptUrl \o extension

\* if (!expense.account)
AccountNeverMissing(expense) == FALSE
MissingAccount(expense) == expense.account = NoAccount

\* if (!payeeId && expense.merchant)
NeedsPayeeForMerchant(expense) == expense.merchant # EmptyString
NeedsPayee(expense) == expense.payee = NoPayee /\ expense.merchant # EmptyString

\* payees.find(p => p.name.toLowerCase() === expense.merchant.toLowerCase()):
\* the position of the first match, 0 when there is none
FindPayeeCaseSensitive(known, merchant) ==
    LET hits == {i \in 1..Len(known) : known[i].name = merchant}
    IN  IF hits = {} THEN 0 ELSE CHOOSE i \in hits : \A j \in hits : i <= j
FindPayee(known, merchant) ==
    LET hits == {i \in 1..Len(known) :
                    ToLowerCase(known[i].name) = ToLowerCase(merchant)}
    IN  IF hits = {} THEN 0 ELSE CHOOSE i \in hits : \A j \in hits : i <= j

\* getReceiptUrl(fileId, serverUrl): `${serverUrl}/receipt/${fileId}`
getReceiptUrl(fileId, serverUrl) == serverUrl \o ReceiptPath \o fileId

\* the transaction object built for one expense; its id is a random temp
\* string, left out
TransactionCleared(s, expense, payeeId) ==
    [account |-> expense.account, date |-> expense.date, amount |-> expense.amount,
     payee |-> payeeId, category |-> expense.categoryId, notes |-> fullReceiptUrl[s],
     cleared |-> TRUE]
Transaction(s, expense, payeeId) ==
    [account |-> expense.account, date |-> expense.date, amount |-> expense.amount,
     payee |-> payeeId, category |-> expense.categoryId, notes |-> fullReceiptUrl[s],
     cleared |-> FALSE]

\* The for loop of handleSave from position i, run up to its next await or
\* its end: "throw" (an expense without account), "create" (await
\* send('payee-create') for expense i) or "batch" (the loop is over, await
\* send('transactions-batch-update')).
RECURSIVE Loop(_, _, _, _)
Loop(s, known, i, added) ==
    IF i > Len(expenses[s]) THEN [kind |-> "batch", i |-> i, added |-> added]
    ELSE LET expense == expenses[s][i] IN
         IF MissingAccount(expense) THEN [kind |-> "throw", i |-> i, added |-> added]
         ELSE IF NeedsPayee(expense)
         THEN LET k == FindPayee(known, expense.merchant) IN
              IF k # 0
              THEN Loop(s, known, i + 1, Append(added, Transaction(s, expense, known[k].id)))
              ELSE [kind |-> "create", i |-> i, added |-> added]
         ELSE Loop(s, known, i + 1, Append(added, Transaction(s, expense, expense.payee)))

\* the session's state after the loop has run to `r`
Continue(s, r) ==
    /\ idx' = [idx EXCEPT ![s] = r.i]
    /\ transactionsToAdd' = [transactionsToAdd EXCEPT ![s] = r.added]
    /\ IF r.kind = "throw"
       THEN /\ pc' = [pc EXCEPT ![s] = "error"]
            /\ error' = [error EXCEPT ![s] = AccountError]
            /\ loading' = [loading EXCEPT ![s] = FALSE]
            /\ UNCHANGED <<createReqs, batchReqs>>
       ELSE IF r.kind = "create"
       THEN /\ pc' = [pc EXCEPT ![s] = "payee-create"]
            /\ createReqs' = [createReqs EXCEPT ![s] = @ \cup {r.i}]
            /\ error' = [error EXCEPT ![s] = NoError]
            /\ loading' = [loading EXCEPT ![s] = TRUE]
            /\ UNCHANGED batchReqs
       ELSE /\ pc' = [pc EXCEPT ![s] = "transactions-batch-update"]
            /\ batchReqs' = [batchReqs EXCEPT ![s] =
                                Append(@, [added |-> r.added, updated |-> <<>>,
                                           deleted |-> <<>>])]
            /\ error' = [error EXCEPT ![s] = NoError]
            /\ loading' = [loading EXCEPT ![s] = TRUE]
            /\ UNCHANGED createReqs

\* handleSave is called: setLoading(true), setError(null), then the loop with
\* the payees of the render it was created in
HandleSave(s) ==
    /\ pc[s] = "review"
    /\ payees' = [payees EXCEPT ![s] = payeeStore]
    /\ Continue(s, Loop(s, payeeStore, 1, <<>>))
    /\ UNCHANGED <<payeeStore, expenses, sessionVars,
                   storeVars, extractVars>>

\* the payee table's side of 'payee-create': every request adds a payee
\* under a generated id; the table looks for no payee of that name (`by`
\* records the requesting session)
payeeCreate(table, name, by) ==
    Append(table, [id |-> PayeeIdPool[Len(table) + 1], name |-> name, by |-> by])

\* send('payee-create', {name}) answers: the table has a new payee, and the
\* loop goes on with the next expense
PayeeCreateReturns(s) ==
    /\ pc[s] = "payee-create"
    /\ Len(payeeStore) < Len(PayeeIdPool)
    /\ LET expense  == expenses[s][idx[s]]
           table    == payeeCreate(payeeStore, expense.merchant, s)
           newPayee == table[Len(table)]
       IN  /\ payeeStore' = table
           /\ Continue(s, Loop(s, payees[s], idx[s] + 1,
                    Append(transactionsToAdd[s], Transaction(s, expense, newPayee.id))))
    /\ UNCHANGED <<expenses, payees, sessionVars,
                   storeVars, extractVars>>

\* send('payee-create') rejects: the catch block
PayeeCreateFails(s) ==
    /\ pc[s] = "payee-create"
    /\ pc' = [pc EXCEPT ![s] = "error"]
    /\ error' = [error EXCEPT ![s] = CreateError]
    /\ loading' = [loading EXCEPT ![s] = FALSE]
    /\ UNCHANGED <<payeeStore, expenses, payees, idx, transactionsToAdd, createReqs,
                   batchReqs, sessionVars,
                   storeVars, extractVars>>

\* send('transactions-batch-update') answers: navigate away
BatchReturnsAndDeletes(s) ==
    /\ pc[s] = "transactions-batch-update"
    /\ pc' = [pc EXCEPT ![s] = "navigated"]
    /\ deleteReqs' = [deleteReqs EXCEPT ![s] = Append(@, route[s].fileId)]
    /\ files' = {f \in files : ~GetMatch(f.name, route[s].fileId)}
    /\ UNCHANGED <<payeeStore, expenses, payees, idx, transactionsToAdd, loading, error,
                   createReqs, batchReqs, route, processing, fullReceiptUrl, answer,
                   retried, apiCalls, bootstrapped, uuidCount, last, accepted,
                   lastDeleted, extractVars>>
BatchReturns(s) ==
    /\ pc[s] = "transactions-batch-update"
    /\ pc' = [pc EXCEPT ![s] = "navigated"]
    /\ UNCHANGED <<payeeStore, expenses, payees, idx, transactionsToAdd, loading, error,
                   createReqs, batchReqs, sessionVars,
                   storeVars, extractVars>>

\* send('transactions-batch-update') rejects: the catch block
BatchFailsAndResends(s) ==
    /\ pc[s] = "transactions-batch-update"
    /\ Len(batchReqs[s]) < 2
    /\ batchReqs' = [batchReqs EXCEPT ![s] = Append(@, @[1])]
    /\ UNCHANGED <<payeeStore, expenses, payees, pc, idx, transactionsToAdd, loading,
                   error, createReqs, sessionVars,
                   storeVars, extractVars>>
BatchFails(s) ==
    /\ pc[s] = "transactions-batch-update"
    /\ pc' = [pc EXCEPT ![s] = "error"]
    /\ error' = [error EXCEPT ![s] = BatchError]
    /\ loading' = [loading EXCEPT ![s] = FALSE]
    /\ UNCHANGED <<payeeStore, expenses, payees, idx, transactionsToAdd, createReqs,
                   batchReqs, sessionVars,
                   storeVars, extractVars>>

InitialPayees == {<<>>, <<[id |-> "p0", name |-> Cafe, by |-> "init"]>>}

CommitNext ==
    \E s \in Sessions :
        \/ HandleSave(s)
        \/ PayeeCreateReturns(s)
        \/ PayeeCreateFails(s)
        \/ BatchReturns(s)
        \/ BatchFails(s)

(***************************************************************************)
(* Receipt processor: validation and normalization of the parsed response  *)
(* (processReceipt, after JSON.parse)                                      *)
(*                                                                         *)
(* A JSON value is [k, n, s]: k its kind, n a number held in hundredths    *)
(* (0.92 is 92, 1200 is 120000, 12.5 is 1250), s a string.                 *)
(***************************************************************************)
MaxRawExpenses == 2               \* length of the expenses array the model returns

JAbsent == [k |-> "undefined", n |-> 0, s |-> EmptyString]
JNull   == [k |-> "null", n |-> 0, s |-> EmptyString]
JNum(h) == [k |-> "number", n |-> h, s |-> EmptyString]
JStr(t) == [k |-> "string", n |-> 0, s |-> t]

\* JavaScript truthiness of a JSON value
Truthy(v) ==
    CASE v.k = "number" -> v.n # 0
      [] v.k = "string" -> v.s # EmptyString
      [] OTHER          -> FALSE

\* a || b
OrLeft(a, b) == a
Or(a, b) == IF Truthy(a) THEN a ELSE b

Deli          == <<"D", "e", "l", "i">>
Uncategorized == <<"U", "n", "c", "a", "t", "e", "g", "o", "r", "i", "z", "e", "d">>
SlashDate     == <<"0", "1", "/", "2", "5", "/", "2", "0", "2", "2">>
Twelve        == <<"1", "2">>
CatId         == <<"c", "1">>
Groceries     == <<"G", "r", "o", "c">>
Milk          == <<"m", "i", "l", "k">>
\* new Date().toISOString().split('T')[0]
Today         == <<"2", "0", "2", "6", "-", "1", "1", "-", "0", "5">>

RawBase == [k |-> "object", amount |-> JNum(120000), merchant |-> JAbsent,
            date |-> JStr(Date1), categoryId |-> JStr(CatId),
            categoryName |-> JStr(Groceries), note |-> JStr(Milk),
            confidence |-> JNum(92)]
RawNullElement == [RawBase EXCEPT !.k = "null"]

\* what the model can put in one element of "expenses": each field in turn
\* takes the values JSON allows for it, the others as in RawBase
RawExpenses ==
    {[RawBase EXCEPT !.amount = v] :
        v \in {JAbsent, JNum(0), JNum(-50000), JNum(1250), JStr(Twelve)}}
    \cup {[RawBase EXCEPT !.date = v] : v \in {JAbsent, JStr(SlashDate)}}
    \cup {[RawBase EXCEPT !.confidence = v] : v \in {JAbsent, JNum(0), JNum(150), JNum(-10)}}
    \cup {[RawBase EXCEPT !.merchant = v] : v \in {JStr(Cafe), JStr(Deli)}}
    \cup {[RawBase EXCEPT !.categoryId = v] : v \in {JAbsent, JNull}}
    \cup {[RawBase EXCEPT !.categoryName = v] : v \in {JAbsent}}
    \cup {[RawBase EXCEPT !.note = v] : v \in {JAbsent}}
    \cup {RawBase, RawNullElement}

RawExpenseLists == UNION {[1..n -> RawExpenses] : n \in 0..MaxRawExpenses}

\* the parsed top-level object; expensesKind tells whether "expenses" is
\* missing, an array, or some other truthy value (a string)
ParsedInputs ==
    {[merchant |-> m, date |-> d, totalAmount |-> t, confidence |-> c,
      expensesKind |-> "array", expenses |-> l] :
        m \in {JAbsent, JStr(Cafe)}, d \in {JAbsent, JStr(Date1), JStr(SlashDate)},
        t \in {JNum(120000)}, c \in {JNum(92)}, l \in RawExpenseLists}
    \cup
    {[merchant |-> m, date |-> d, totalAmount |-> t, confidence |-> c,
      expensesKind |-> ek, expenses |-> <<>>] :
        m \in {JAbsent, JStr(Cafe)}, d \in {JAbsent, JStr(Date1)},
        t \in {JAbsent, JNum(120000)}, c \in {JAbsent, JNum(0), JNum(92)},
        ek \in {"undefined", "string"}}

\* one element of result.expenses.map(...)
NormalizeExpense(p, expense) ==
    [amount       |-> Or(expense.amount, JNum(0)),
     merchant     |-> Or(p.merchant, Or(expense.merchant, JStr(EmptyString))),
     date         |-> Or(expense.date, Or(p.date, JStr(Today))),
     categoryId   |-> Or(expense.categoryId, JNull),
     categoryName |-> Or(expense.categoryName, JStr(Uncategorized)),
     note         |-> Or(expense.note, JStr(EmptyString)),
     confidence   |-> Or(expense.confidence, JNum(50))]

Threw == [status |-> "threw", expenses |-> <<>>, totalAmount |-> JAbsent,
          receiptDate |-> JAbsent, merchant |-> JAbsent, confidence |-> JAbsent]

\* const result = {...}; result.expenses = result.expenses.map(...); a value
\* of "expenses" without .map, or an element that is null, throws a
\* TypeError, which the outer catch rethrows
Normalize(p) ==
    IF p.expensesKind = "string" THEN Threw
    ELSE LET list == IF p.expensesKind = "array" THEN p.expenses ELSE <<>> IN
         IF \E i \in 1..Len(list) : list[i].k = "null" THEN Threw
         ELSE [status      |-> "returned",
               expenses    |-> [i \in 1..Len(list) |-> NormalizeExpense(p, list[i])],
               totalAmount |-> Or(p.totalAmount, JNum(0)),
               receiptDate |-> Or(p.date, JNull),
               merchant    |-> Or(p.merchant, JNull),
               confidence  |-> Or(p.confidence, JNum(50))]

Pending == [Threw EXCEPT !.status = "pending"]

\* processReceipt from the parsed object to its return
ProcessReceiptNormalize ==
    /\ result.status = "pending"
    /\ result' = Normalize(parsedData)
    /\ UNCHANGED <<parsedData, content, parsed, storeVars, commitVars>>

ExtractNext == ProcessReceiptNormalize

(***************************************************************************)
(* Receipt processor: from the model's answer to the parsed object         *)
(* (processReceipt, content.match and JSON.parse)                           *)
(*                                                                         *)
(* The answer is a text of one-character strings. JSON.parse is computed   *)
(* for the part of JSON these texts use: objects, arrays, strings without  *)
(* escapes, unsigned integers, blanks.                                     *)
(***************************************************************************)
\* index of the first "{" of t, 0 when there is none
FirstOpen(t) ==
    LET opens == {i \in 1..Len(t) : t[i] = "{"}
    IN  IF opens = {} THEN 0 ELSE CHOOSE i \in opens : \A j \in opens : i <= j

\* index of the last "}" of t, 0 when there is none
LastClose(t) ==
    LET closes == {i \in 1..Len(t) : t[i] = "}"}
    IN  IF closes = {} THEN 0 ELSE CHOOSE i \in closes : \A j \in closes : j <= i

\* content.match(/\{[\s\S]*\}/): [\s\S]* is greedy, the match runs from the
\* first "{" to the last "}" after it; <<>> stands for null (no match)
RegexMatch(t) ==
    LET a == FirstOpen(t)
        b == LastClose(t)
    IN  IF a = 0 \/ b < a THEN EmptyString ELSE SubSeq(t, a, b)

\* first index from i on that holds no blank (Len(t) + 1 when there is none)
SkipWs(t, i) ==
    LET stops == {j \in i..Len(t) : t[j] # " "}
    IN  IF stops = {} THEN Len(t) + 1 ELSE CHOOSE j \in stops : \A k \in stops : j <= k

\* The parsers take a text and the index where a value starts and give the
\* index after the value, 0 for a SyntaxError.
ParseString(t, i) ==
    IF i = 0 \/ i > Len(t) \/ t[i] # "\"" THEN 0
    ELSE LET quotes == {j \in (i + 1)..Len(t) : t[j] = "\""}
         IN  IF quotes = {} THEN 0
             ELSE (CHOOSE j \in quotes : \A k \in quotes : j <= k) + 1

\* first index from i on that holds no digit
SkipDigits(t, i) ==
    LET stops == {j \in i..Len(t) : t[j] \notin Digits}
    IN  IF stops = {} THEN Len(t) + 1 ELSE CHOOSE j \in stops : \A k \in stops : j <= k

\* an unsigned integer: "0", or a digit that is not "0" and the digits after it
ParseUnsigned(t, i) ==
    IF i = 0 \/ i > Len(t) \/ t[i] \notin Digits THEN 0
    ELSE IF t[i] = "0" THEN i + 1
    ELSE SkipDigits(t, i)

\* an integer: an optional "-" and an unsigned integer
ParseNumber(t, i) ==
    IF i # 0 /\ i <= Len(t) /\ t[i] = "-" THEN ParseUnsigned(t, i + 1)
    ELSE ParseUnsigned(t, i)

RECURSIVE ParseValue(_, _), ParseMembers(_, _), ParseElements(_, _)

\* after "[": "]" or elements
ParseArray(t, i) ==
    LET j == SkipWs(t, i + 1)
    IN  IF j > Len(t) THEN 0
        ELSE IF t[j] = "]" THEN j + 1
        ELSE ParseElements(t, j)

\* after "{": "}" or members
ParseObject(t, i) ==
    LET j == SkipWs(t, i + 1)
    IN  IF j > Len(t) THEN 0
        ELSE IF t[j] = "}" THEN j + 1
        ELSE ParseMembers(t, j)

ParseValue(t, i) ==
    IF i = 0 \/ i > Len(t) THEN 0
    ELSE IF t[i] = "{" THEN ParseObject(t, i)
    ELSE IF t[i] = "[" THEN ParseArray(t, i)
    ELSE IF t[i] = "\"" THEN ParseString(t, i)
    ELSE ParseNumber(t, i)

\* value, then "," and more elements, or the closing "]"
ParseElements(t, i) ==
    LET v == ParseValue(t, i)
        e == SkipWs(t, v)
    IN  IF v = 0 \/ e > Len(t) THEN 0
        ELSE IF t[e] = "," THEN ParseElements(t, SkipWs(t, e + 1))
        ELSE IF t[e] = "]" THEN e + 1
        ELSE 0

\* string : value, then "," and more members, or the closing "}"
ParseMembers(t, i) ==
    LET k == ParseString(t, i)
        c == SkipWs(t, k)
    IN  IF k = 0 \/ c > Len(t) \/ t[c] # ":" THEN 0
        ELSE LET v == ParseValue(t, SkipWs(t, c + 1))
                 e == SkipWs(t, v)
             IN  IF v = 0 \/ e > Len(t) THEN 0
                 ELSE IF t[e] = "," THEN ParseMembers(t, SkipWs(t, e + 1))
                 ELSE IF t[e] = "}" THEN e + 1
                 ELSE 0

\* JSON.parse(t) returns (TRUE) or throws a SyntaxError (FALSE): one value,
\* blanks around it, nothing else
JSONParses(t) ==
    LET v == ParseValue(t, SkipWs(t, 1))
    IN  v # 0 /\ SkipWs(t, v) = Len(t) + 1

\* answers of the model: prose, then an object or what is meant to be one,
\* then prose, with and without braces in the prose
\* {"merchant":"Cafe","expenses":[{}]}: a receipt of one expense, all of the
\* expense's fields left out
ReceiptJson ==
    <<"{", "\"", "m", "e", "r", "c", "h", "a", "n", "t", "\"", ":", "\"", "C", "a", "f", "e",
      "\"", ",", "\"", "e", "x", "p", "e", "n", "s", "e", "s", "\"", ":", "[", "{", "}", "]",
      "}">>

\* a receipt of two expenses: {"expenses":[{"amount":-5,"confidence":1},{"merchant":"cafe"}]}
TwoJson ==
    <<"{", "\"", "e", "x", "p", "e", "n", "s", "e", "s", "\"", ":", "[", "{", "\"",
      "a", "m", "o", "u", "n", "t", "\"", ":", "-", "5", ",", "\"", "c", "o", "n", "f",
      "i", "d", "e", "n", "c", "e", "\"", ":", "1", "}", ",", "{", "\"", "m", "e", "r",
      "c", "h", "a", "n", "t", "\"", ":", "\"", "c", "a", "f", "e", "\"", "}", "]",
      "}">>

Prefixes ==
    {EmptyString, <<"H", "i", " ">>, <<"{", "x", "}", " ">>}
Objects ==
    {EmptyString, ReceiptJson,
     <<"{", "}">>,
     <<"{", "\"", "a", "\"", ":", "1", "}">>,
     <<"{", "\"", "a", "\"", ":", "{", "\"", "b", "\"", ":", "2", "}", "}">>,
     <<"{", "a", "}">>,                                  \* no JSON: a bare word
     <<"{", "\"", "a", "\"", ":", "1">>}                 \* no closing brace
Suffixes ==
    {EmptyString, <<" ", "o", "k">>,
     <<" ", "{", "n", "}">>,                             \* prose with braces
     <<" ", "}">>,
     <<" ", "{", "\"", "b", "\"", ":", "2", "}">>}       \* a second object
Contents == {pre \o obj \o post : pre \in Prefixes, obj \in Objects, post \in Suffixes}

NotParsed == [status |-> "pending", jsonMatch |-> EmptyString]

\* processReceipt from the answer to parsedData: `if (!content) throw`, the
\* match, `if (!jsonMatch) throw`, JSON.parse(jsonMatch[0]); every throw
\* leaves processReceipt through the outer catch
ExtractJson(text) ==
    IF text = EmptyString THEN [status |-> "no-response", jsonMatch |-> EmptyString]
    ELSE LET m == RegexMatch(text) IN
         IF m = EmptyString THEN [status |-> "no-json-found", jsonMatch |-> EmptyString]
         ELSE IF ~JSONParses(m) THEN [status |-> "syntax-error", jsonMatch |-> m]
         ELSE [status |-> "parsed", jsonMatch |-> m]

ProcessReceiptParse ==
    /\ parsed.status = "pending"
    /\ parsed' = ExtractJson(content)
    /\ UNCHANGED <<content, parsedData, result, storeVars, commitVars>>

ParseNext == ProcessReceiptParse

(***************************************************************************)
(* POST /receipt/process with body {fileId, categories}                    *)
(***************************************************************************)
\* JSON.parse of an object without any of the fields processReceipt reads
IdleParsedData ==
    [merchant |-> JAbsent, date |-> JAbsent, totalAmount |-> JAbsent,
     confidence |-> JAbsent, expensesKind |-> "undefined", expenses |-> <<>>]

\* the element {} of "expenses"
RawEmpty == [k |-> "object", amount |-> JAbsent, merchant |-> JAbsent, date |-> JAbsent,
             categoryId |-> JAbsent, categoryName |-> JAbsent, note |-> JAbsent,
             confidence |-> JAbsent]

\* JSON.parse of the answers below that parse: {}, ReceiptJson and TwoJson
ObjectOf(text) ==
    IF text = ReceiptJson
    THEN [IdleParsedData EXCEPT !.merchant = JStr(Cafe), !.expensesKind = "array",
                                !.expenses = <<RawEmpty>>]
    ELSE IF text = TwoJson
    THEN [IdleParsedData EXCEPT !.expensesKind = "array",
             !.expenses = <<[RawEmpty EXCEPT !.amount = JNum(-500),
                                             !.confidence = JNum(100)],
                            [RawEmpty EXCEPT !.merchant = JStr(CafeLower)]>>]
    ELSE IdleParsedData

\* what a process request meets besides the store: a body whose categories
\* are no array, no config.get('openai.apiKey'), a call of the model that
\* rejects, or one that answers: no content, prose, braces around no JSON,
\* the object {}, a receipt of one expense, a receipt of two
ModelAnswers ==
    {EmptyString, <<"o", "k">>, <<"{", "a", "}">>, <<"{", "}">>, ReceiptJson, TwoJson}
ProcessCases ==
    {[kind |-> k, content |-> EmptyString] :
        k \in {"no-categories", "no-api-key", "call-rejects"}}
    \cup {[kind |-> "answer", content |-> t] : t \in ModelAnswers}

ConfigMessage   == "OpenAI API key not configured"
ApiMessage      == "Receipt processing failed: <error of the API call>"
NoAnswerMessage == "Receipt processing failed: No response from OpenAI API"
ParseMessage    == "Receipt processing failed: Failed to parse receipt data"
TypeMessage     == "Receipt processing failed: <TypeError>"

\* processReceipt(filePath, categories) on a file that exists: the message it
\* throws ("" when it returns), what it returns, whether it called the model
processReceipt(case) ==
    IF case.kind = "no-api-key"
    THEN [threw |-> ConfigMessage, data |-> NoData, modelInvoked |-> FALSE]
    ELSE IF case.kind = "call-rejects"
    THEN [threw |-> ApiMessage, data |-> NoData, modelInvoked |-> TRUE]
    ELSE LET j == ExtractJson(case.content) IN
         IF j.status = "no-response"
         THEN [threw |-> NoAnswerMessage, data |-> NoData, modelInvoked |-> TRUE]
         ELSE IF j.status # "parsed"
         THEN [threw |-> ParseMessage, data |-> NoData, modelInvoked |-> TRUE]
         ELSE LET r == Normalize(ObjectOf(j.jsonMatch)) IN
              IF r.status = "threw"
              THEN [threw |-> TypeMessage, data |-> NoData, modelInvoked |-> TRUE]
              ELSE [threw |-> "", data |-> r, modelInvoked |-> TRUE]

\* the handler's answer after processReceipt: 200 with the result, or the
\* catch block's 500 with the error's message and no data
ProcessResponseKeepsData(out) ==
    [result  |-> IF out.threw = "" THEN "ok" ELSE "processing-failed",
     message |-> out.threw, data |-> Normalize(IdleParsedData)]
ProcessResponse(out) ==
    IF out.threw = "" THEN [result |-> "ok", message |-> "", data |-> out.data]
    ELSE [result |-> "processing-failed", message |-> out.threw, data |-> NoData]

\* the answers the handler can give to a request {fileId, categories}
ProcessAnswers(fileId, case) ==
    LET matches == {f \in files : ProcessMatch(f.name, fileId)}
        base    == [NoLast EXCEPT !.op = "process", !.fileId = fileId,
                                  !.bootstrapped = bootstrapped, !.case = case]
    IN  IF ~bootstrapped THEN {[base EXCEPT !.result = "not-bootstrapped"]}
        ELSE IF fileId = EmptyString THEN {[base EXCEPT !.result = "missing-file-id"]}
        ELSE IF case.kind = "no-categories"
        THEN {[base EXCEPT !.result = "missing-categories"]}
        ELSE IF matches = {} THEN {[base EXCEPT !.result = "file-not-found"]}
        ELSE {LET out  == processReceipt(case)
                  resp == ProcessResponse(out)
              IN  [base EXCEPT !.result = resp.result, !.message = resp.message,
                               !.data = resp.data, !.selected = f.name,
                               !.modelInvoked = out.modelInvoked,
                               !.receiptUrl = IF resp.result = "ok"
                                              THEN ReceiptPath \o fileId ELSE EmptyString,
                               !.extension = IF resp.result = "ok"
                                             THEN ExtName(f.name) ELSE EmptyString] :
              f \in matches}

Process(fileId, case) ==
    /\ UNCHANGED <<files, bootstrapped, uuidCount, accepted, lastDeleted,
                   commitVars, extractVars>>
    /\ \E a \in ProcessAnswers(fileId, case) :
           last' = [a EXCEPT !.storeChanged = (files' # files)]

\* beside uploads, retrieves and deletes, process requests come with the
\* cases of a processReceipt that throws and of one that returns
FewProcessCases ==
    {c \in ProcessCases :
        \/ c.kind = "no-api-key"
        \/ c.kind = "answer" /\ c.content = <<"{", "}">>}

StoreNext ==
    \/ \E part \in Parts \cup {NoPart}, ts \in Timestamps : Upload(part, ts)
    \/ \E fileId \in ReqIds : Retrieve(fileId)
    \/ \E fileId \in ReqIds : Delete(fileId)
    \/ \E fileId \in ReqIds \cup {EmptyString}, case \in FewProcessCases :
           Process(fileId, case)
    \/ Bootstrap

\* process requests alone, with every case
ProcessNext ==
    \E fileId \in ReqIds \cup {EmptyString}, case \in ProcessCases : Process(fileId, case)

(***************************************************************************)
(* Review screen session: ReceiptReview from its mount to its leaving      *)
(*                                                                         *)
(* pc of a session: "mount" (rendered, useEffect not run), then the        *)
(* extraction "process-request" (fetch sent), "model-call" (the server     *)
(* awaits the model), "process-response" (the answer is back), then        *)
(* "review" or "error" (the views), the positions of handleSave, and       *)
(* "navigated".                                                            *)
(***************************************************************************)
MaxRetries == 1                   \* extractions started in one session after its first

Reviewers == {"A"}

InvalidError    == "Invalid receipt or server configuration"
ExtractionError == "Failed to process receipt: <message of the answer>"
CommitErrors    == {AccountError, CreateError, BatchError}

\* the stage whose failure is the session's error
FailedStage(s) ==
    IF error[s] = NoError THEN "none"
    ELSE IF error[s] \in CommitErrors THEN "commit"
    ELSE IF error[s] = ExtractionError THEN "extraction"
    ELSE "mount"

\* a value of the answer's JSON as the screen holds it (numbers in hundredths)
Plain(v) ==
    CASE v.k = "number" -> v.n
      [] v.k = "string" -> v.s
      [] OTHER          -> v.k

\* the element of result.expenses.map((expense, index) => ...): {...expense,
\* id: `expense-${index}`, account: accountId || undefined, payee: undefined};
\* the id is held as its index
EditableNoAccount(expense, index, accountId) ==
    [id |-> index, amount |-> Plain(expense.amount), merchant |-> Plain(expense.merchant),
     date |-> Plain(expense.date), categoryId |-> Plain(expense.categoryId),
     categoryName |-> Plain(expense.categoryName), note |-> Plain(expense.note),
     confidence |-> Plain(expense.confidence),
     account |-> NoAccount, payee |-> NoPayee]
Editable(expense, index, accountId) ==
    [id |-> index, amount |-> Plain(expense.amount), merchant |-> Plain(expense.merchant),
     date |-> Plain(expense.date), categoryId |-> Plain(expense.categoryId),
     categoryName |-> Plain(expense.categoryName), note |-> Plain(expense.note),
     confidence |-> Plain(expense.confidence),
     account |-> accountId, payee |-> NoPayee]

\* processReceiptFile up to its await: if (!fileId) return; setProcessing(true);
\* setError(null); the fetch of the client's processReceipt
ProcessReceiptFile(s) ==
    IF route[s].fileId = EmptyString
    THEN UNCHANGED <<processing, error, pc, answer>>
    ELSE /\ processing' = [processing EXCEPT ![s] = TRUE]
         /\ error' = [error EXCEPT ![s] = NoError]
         /\ pc' = [pc EXCEPT ![s] = "process-request"]
         /\ answer' = [answer EXCEPT ![s] = NoLast]

\* useEffect after the first render
Mount(s) ==
    /\ pc[s] = "mount"
    /\ IF route[s].fileId # EmptyString
       THEN ProcessReceiptFile(s) /\ UNCHANGED loading
       ELSE /\ error' = [error EXCEPT ![s] = InvalidError]
            /\ loading' = [loading EXCEPT ![s] = FALSE]
            /\ pc' = [pc EXCEPT ![s] = "error"]
            /\ UNCHANGED <<processing, answer>>
    /\ UNCHANGED <<payeeStore, expenses, payees, idx, transactionsToAdd, createReqs,
                   batchReqs, route, fullReceiptUrl, retried, deleteReqs, apiCalls, storeVars,
                   extractVars>>

\* the server's handler up to `await openai.chat.completions.create`, or to
\* its answer when it gives one before
ServerHandles(s) ==
    /\ pc[s] = "process-request"
    /\ \E keyed \in BOOLEAN :
           LET early == ProcessAnswers(route[s].fileId,
                                       [kind |-> "no-api-key", content |-> EmptyString])
               callsModel == keyed /\ \E a \in early : a.message = ConfigMessage
           IN  IF callsModel
               THEN /\ pc' = [pc EXCEPT ![s] = "model-call"]
                    /\ UNCHANGED answer
               ELSE /\ pc' = [pc EXCEPT ![s] = "process-response"]
                    /\ \E a \in early : answer' = [answer EXCEPT ![s] = a]
    /\ UNCHANGED <<payeeStore, expenses, payees, idx, transactionsToAdd, loading, error,
                   createReqs, batchReqs, route, processing, fullReceiptUrl, retried,
                   deleteReqs, apiCalls, storeVars, extractVars>>

\* what the model's API does in a session: it rejects, or answers with prose,
\* with a receipt of one expense or with one of two
SessionCases ==
    {c \in ProcessCases :
        \/ c.kind = "call-rejects"
        \/ c.kind = "answer" /\ c.content \in {<<"o", "k">>, ReceiptJson, TwoJson}}

\* the model's API answers or rejects and the handler sends its answer;
\* nothing in processReceipt or in the handler ends the wait otherwise
ModelResponds(s) ==
    /\ pc[s] = "model-call"
    /\ \E case \in SessionCases :
           \E a \in ProcessAnswers(route[s].fileId, case) :
               answer' = [answer EXCEPT ![s] = a]
    /\ pc' = [pc EXCEPT ![s] = "process-response"]
    /\ UNCHANGED <<payeeStore, expenses, payees, idx, transactionsToAdd, loading, error,
                   createReqs, batchReqs, route, processing, fullReceiptUrl, retried,
                   deleteReqs, apiCalls, storeVars, extractVars>>

\* the fetch of processReceiptFile resolves with the answer a: the client's
\* processReceipt returns result.data or throws, processReceiptFile sets the
\* expenses and the link or the error, and its finally block clears
\* processing and loading
Extracted(a) == ClientCall("process", ResponseOf(a.result, "d1")).kind = "returns"
Received(s, a) ==
    /\ IF Extracted(a)
       THEN /\ expenses' = [expenses EXCEPT ![s] =
                    [i \in 1..Len(a.data.expenses) |->
                        Editable(a.data.expenses[i], i - 1, route[s].accountId)]]
            /\ fullReceiptUrl' = [fullReceiptUrl EXCEPT ![s] =
                    FullUrl(ServerUrl, a.receiptUrl, a.extension)]
            /\ UNCHANGED error
       ELSE /\ error' = [error EXCEPT ![s] = ExtractionError]
            /\ UNCHANGED <<expenses, fullReceiptUrl>>
    /\ processing' = [processing EXCEPT ![s] = FALSE]
    /\ loading' = [loading EXCEPT ![s] = FALSE]

\* the extraction the session waits for is answered: the review view or the
\* error view is shown
ClientReceives(s) ==
    /\ pc[s] = "process-response"
    /\ Received(s, answer[s])
    /\ pc' = [pc EXCEPT ![s] = IF Extracted(answer[s]) THEN "review" ELSE "error"]
    /\ UNCHANGED <<payeeStore, payees, idx, transactionsToAdd, createReqs, batchReqs,
                   route, answer, retried, deleteReqs, apiCalls, storeVars, extractVars>>

\* useCategories() returns a new list (the category directory was edited or
\* synced): processReceiptFile, a useCallback over [fileId, categories,
\* serverUrl, accountId], is a new function, and the effect over [fileId,
\* serverUrl, processReceiptFile] runs again, as it does for a new accountId
\* or serverUrl. The change comes while the review view is shown or while
\* the commit waits for the batch's answer; in a commit the extraction runs
\* beside handleSave.
Restarts(s) == retried[s].count + IF route[s].categories = "cat1" THEN 0 ELSE 1
CategoriesChange(s) ==
    /\ route[s].categories = "cat1"
    /\ Restarts(s) < MaxRetries
    /\ pc[s] \in {"review", "transactions-batch-update"}
    /\ ~processing[s]
    /\ route' = [route EXCEPT ![s].categories = "cat2"]
    /\ IF route[s].fileId # EmptyString /\ ServerUrl # EmptyString
       THEN /\ IF pc[s] = "transactions-batch-update"
               THEN /\ processing' = [processing EXCEPT ![s] = TRUE]
                    /\ error' = [error EXCEPT ![s] = NoError]
                    /\ answer' = [answer EXCEPT ![s] = NoLast]
                    /\ UNCHANGED pc
               ELSE ProcessReceiptFile(s)
            /\ UNCHANGED loading
       ELSE /\ error' = [error EXCEPT ![s] = InvalidError]
            /\ loading' = [loading EXCEPT ![s] = FALSE]
            /\ UNCHANGED <<pc, processing, answer>>
    /\ UNCHANGED <<payeeStore, expenses, payees, idx, transactionsToAdd, createReqs,
                   batchReqs, fullReceiptUrl, retried, deleteReqs, apiCalls, storeVars,
                   extractVars>>

\* the extraction that runs beside a commit is answered, while the commit
\* still waits or after it failed (after the navigation the screen is gone)
ExtractionEnds(s) ==
    /\ pc[s] \in {"transactions-batch-update", "error"}
    /\ processing[s]
    /\ \E keyed \in BOOLEAN, case \in SessionCases :
           \E a \in ProcessAnswers(route[s].fileId,
                                    IF keyed THEN case
                                    ELSE [kind |-> "no-api-key", content |-> EmptyString]) :
               /\ Received(s, a)
               /\ answer' = [answer EXCEPT ![s] = a]
    /\ UNCHANGED <<payeeStore, payees, pc, idx, transactionsToAdd, createReqs, batchReqs,
                   route, retried, deleteReqs, apiCalls, storeVars, extractVars>>

\* { ...expense, [field]: value } for the fields the screen updates
SetField(expense, field, value) ==
    CASE field = "amount"       -> [expense EXCEPT !.amount = value]
      [] field = "account"      -> [expense EXCEPT !.account = value]
      [] field = "payee"        -> [expense EXCEPT !.payee = value]
      [] field = "categoryId"   -> [expense EXCEPT !.categoryId = value]
      [] field = "categoryName" -> [expense EXCEPT !.categoryName = value]
      [] field = "date"         -> [expense EXCEPT !.date = value]
      [] field = "note"         -> [expense EXCEPT !.note = value]

\* updateExpense(id, field, value): prev.map(expense => expense.id === id ?
\* { ...expense, [field]: value } : expense)
updateExpenseClearsPayee(list, id, field, value) ==
    [i \in 1..Len(list) |->
        IF list[i].id = id THEN [SetField(list[i], field, value) EXCEPT !.payee = NoPayee]
        ELSE list[i]]
updateExpense(list, id, field, value) ==
    [i \in 1..Len(list) |->
        IF list[i].id = id THEN SetField(list[i], field, value) ELSE list[i]]

\* what the user can type into the amount field, and amountToInteger of it
\* (a number of minor units, held in hundredths like every number)
Typed == {[whole |-> 5, cents |-> 0]}
amountToInteger(v) == (v.whole * 100 + v.cents) * 100

\* the values the fields and modals of the review view pass to updateExpense
FieldValues(field) ==
    CASE field = "amount"       -> {amountToInteger(v) : v \in Typed}
      [] field = "account"      -> {"acc1"}
      [] field = "payee"        -> {"p0"}
      [] field = "categoryId"   -> {"c1"}
      [] field = "categoryName" -> {Groceries}
      [] field = "date"         -> {Date1}
      [] field = "note"         -> {Milk}
Fields == {"amount", "account", "payee", "categoryId", "categoryName", "date", "note"}

\* the user types an amount or picks an account in its modal, for one of the
\* expenses shown
EditExpense(s) ==
    /\ pc[s] = "review"
    /\ \E i \in 1..Len(expenses[s]), field \in {"amount", "account"} :
           \E value \in FieldValues(field) :
               LET list == updateExpense(expenses[s], expenses[s][i].id, field, value)
               IN  /\ list # expenses[s]
                   /\ expenses' = [expenses EXCEPT ![s] = list]
    /\ UNCHANGED <<payeeStore, payees, pc, idx, transactionsToAdd, loading, error,
                   createReqs, batchReqs, sessionVars, storeVars, extractVars>>

\* the Retry button of the error view and of the review view:
\* await processReceiptFile()
HandleRetry(s) ==
    /\ pc[s] \in {"review", "error"}
    /\ ~processing[s]
    /\ Restarts(s) < MaxRetries
    /\ retried' = [retried EXCEPT ![s] =
                      [count  |-> @.count + 1,
                       failed |-> FailedStage(s),
                       ran    |-> IF route[s].fileId = EmptyString THEN "none"
                                  ELSE "extraction",
                       before |-> expenses[s]]]
    /\ ProcessReceiptFile(s)
    /\ UNCHANGED <<payeeStore, expenses, payees, idx, transactionsToAdd, loading,
                   createReqs, batchReqs, route, fullReceiptUrl, deleteReqs, apiCalls, storeVars,
                   extractVars>>

\* the Cancel button up to its await: if (fileId && serverUrl) the DELETE
\* request of deleteReceipt is sent, otherwise navigate(-1) at once
HandleCancel(s) ==
    /\ pc[s] \in {"review", "error"}
    /\ ~processing[s]
    /\ IF route[s].fileId # EmptyString /\ ServerUrl # EmptyString
       THEN /\ deleteReqs' = [deleteReqs EXCEPT ![s] = Append(@, route[s].fileId)]
            /\ pc' = [pc EXCEPT ![s] = "delete-request"]
       ELSE /\ pc' = [pc EXCEPT ![s] = "navigated"]
            /\ UNCHANGED deleteReqs
    /\ UNCHANGED <<payeeStore, expenses, payees, idx, transactionsToAdd, loading, error,
                   createReqs, batchReqs, route, processing, fullReceiptUrl, answer,
                   retried, apiCalls, storeVars, extractVars>>

\* what handleCancel does with the outcome of deleteReceipt: a throw is
\* caught and logged, then navigate(-1)
CancelEscalates(s, out) ==
    IF out.kind = "throws"
    THEN /\ pc' = [pc EXCEPT ![s] = "error"]
         /\ error' = [error EXCEPT ![s] = ExtractionError]
    ELSE /\ pc' = [pc EXCEPT ![s] = "navigated"]
         /\ UNCHANGED error
CancelEnds(s, out) ==
    /\ pc' = [pc EXCEPT ![s] = "navigated"]
    /\ UNCHANGED error

\* the DELETE request is answered by the server's handler, or fetch rejects
\* and the store is not touched; deleteReceipt returns or throws
DeleteAnswered(s) ==
    /\ pc[s] = "delete-request"
    /\ \/ /\ DeleteHandler(route[s].fileId)
          /\ apiCalls' = [apiCalls EXCEPT !["delete"] =
                 LET r == ResponseOf(last'.result, "undefined")
                 IN  [response |-> r, outcome |-> ClientCall("delete", r)]]
       \/ /\ UNCHANGED <<files, lastDeleted, last>>
          /\ apiCalls' = [apiCalls EXCEPT !["delete"] =
                 [response |-> Rejected, outcome |-> ClientCall("delete", Rejected)]]
    /\ CancelEnds(s, apiCalls'["delete"].outcome)
    /\ UNCHANGED <<payeeStore, expenses, payees, idx, transactionsToAdd, loading,
                   createReqs, batchReqs, route, processing, fullReceiptUrl, answer,
                   retried, deleteReqs, bootstrapped, uuidCount, accepted, extractVars>>

\* {expense.confidence < 0.8 && <Text>Low confidence ... please verify</Text>}
lowConfidence(expense) == expense.confidence < 80

\* const canSave = expenses.length > 0 && expenses.every(e => e.account)
canSaveConfident(s) ==
    /\ Len(expenses[s]) > 0
    /\ \A i \in 1..Len(expenses[s]) :
           expenses[s][i].account # NoAccount /\ ~lowConfidence(expenses[s][i])
canSave(s) ==
    /\ Len(expenses[s]) > 0
    /\ \A i \in 1..Len(expenses[s]) : expenses[s][i].account # NoAccount

\* what the screen renders: if (loading || processing) the loading view, if
\* (error) the error view, otherwise the review view
View(s) ==
    IF loading[s] \/ processing[s] THEN "loading"
    ELSE IF error[s] # NoError THEN "error"
    ELSE "review"

\* the Save button is on the screen (the review view of a mounted screen)
\* and is not disabled
SaveEnabled(s) ==
    /\ pc[s] \notin {"idle", "mount", "navigated"}
    /\ View(s) = "review"
    /\ canSave(s)

\* the Save button, enabled by canSave
PressSave(s) == canSave(s) /\ HandleSave(s)

\* the fileId parameter of GET /receipt/:fileId for a link
LinkFileId(url) == SubSeq(url, Len(ServerUrl \o ReceiptPath) + 1, Len(url))

\* the link in the notes of a transaction the session has sent is opened
OpenReceiptLink(s) ==
    \E k \in 1..Len(batchReqs[s]) : \E i \in 1..Len(batchReqs[s][k].added) :
        LET notes == batchReqs[s][k].added[i].notes IN
        /\ StartsWith(notes, ServerUrl \o ReceiptPath)
        /\ Retrieve(LinkFileId(notes))

SessionNext ==
    \E s \in Reviewers :
        \/ Mount(s)
        \/ ServerHandles(s)
        \/ ModelResponds(s)
        \/ ClientReceives(s)
        \/ CategoriesChange(s)
        \/ ExtractionEnds(s)
        \/ EditExpense(s)
        \/ HandleRetry(s)
        \/ HandleCancel(s)
        \/ DeleteAnswered(s)
        \/ PressSave(s)
        \/ PayeeCreateReturns(s)
        \/ PayeeCreateFails(s)
        \/ BatchReturns(s)
        \/ BatchFails(s)
        \/ OpenReceiptLink(s)

(***************************************************************************)
(* Specifications                                                          *)
(***************************************************************************)
IdleSessions(v) == [s \in Sessions |-> v]
NoRoute == [fileId |-> EmptyString, accountId |-> NoAccount, categories |-> "cat1"]
NoRetry == [count |-> 0, failed |-> "none", ran |-> "none", before |-> <<>>]
\* links of sessions whose extraction is over, one receipt each
IdleLinks == [s \in Sessions |-> FullUrl(ServerUrl, ReceiptPath \o <<s>>, ExtJpg)]

\* the receipt store alone: an empty directory, bootstrapped or not
InitStore ==
    /\ files = {}
    /\ bootstrapped \in BOOLEAN
    /\ uuidCount = 0
    /\ last = NoLast
    /\ accepted = {}
    /\ lastDeleted = EmptyString
    /\ payeeStore = <<>>
    /\ expenses = IdleSessions(<<>>)
    /\ payees = IdleSessions(<<>>)
    /\ pc = IdleSessions("review")
    /\ idx = IdleSessions(0)
    /\ transactionsToAdd = IdleSessions(<<>>)
    /\ loading = IdleSessions(FALSE)
    /\ error = IdleSessions(NoError)
    /\ createReqs = IdleSessions({})
    /\ batchReqs = IdleSessions(<<>>)
    /\ route = IdleSessions(NoRoute)
    /\ processing = IdleSessions(FALSE)
    /\ fullReceiptUrl = IdleLinks
    /\ answer = IdleSessions(NoLast)
    /\ retried = IdleSessions(NoRetry)
    /\ deleteReqs = IdleSessions(<<>>)
    /\ apiCalls = [op \in ClientOps |-> NoCall]
    /\ parsedData = IdleParsedData
    /\ result = Pending
    /\ content = EmptyString
    /\ parsed = NotParsed

SpecStore == InitStore /\ [][StoreNext]_vars

\* stores that uploads leave behind
StoredSets ==
    SUBSET {[name |-> filename(ts, Anonymous, Uuid(n), ExtJpg), bytes |-> "b1", size |-> 1] :
                ts \in Timestamps, n \in 1..MaxUploads}

\* process requests alone, over any such store, bootstrapped or not
InitProcess ==
    /\ files \in StoredSets
    /\ bootstrapped \in BOOLEAN
    /\ uuidCount = MaxUploads
    /\ last = NoLast
    /\ accepted = {}
    /\ lastDeleted = EmptyString
    /\ payeeStore = <<>>
    /\ expenses = IdleSessions(<<>>)
    /\ payees = IdleSessions(<<>>)
    /\ pc = IdleSessions("review")
    /\ idx = IdleSessions(0)
    /\ transactionsToAdd = IdleSessions(<<>>)
    /\ loading = IdleSessions(FALSE)
    /\ error = IdleSessions(NoError)
    /\ createReqs = IdleSessions({})
    /\ batchReqs = IdleSessions(<<>>)
    /\ route = IdleSessions(NoRoute)
    /\ processing = IdleSessions(FALSE)
    /\ fullReceiptUrl = IdleLinks
    /\ answer = IdleSessions(NoLast)
    /\ retried = IdleSessions(NoRetry)
    /\ deleteReqs = IdleSessions(<<>>)
    /\ apiCalls = [op \in ClientOps |-> NoCall]
    /\ parsedData = IdleParsedData
    /\ result = Pending
    /\ content = EmptyString
    /\ parsed = NotParsed

SpecProcess == InitProcess /\ [][ProcessNext]_vars

\* the commits of the two sessions alone: each in the review state with its
\* expense list, over a payee table that has the payee "Cafe" or none
InitCommit ==
    /\ files = {}
    /\ bootstrapped = TRUE
    /\ uuidCount = 0
    /\ last = NoLast
    /\ accepted = {}
    /\ lastDeleted = EmptyString
    /\ payeeStore \in InitialPayees
    /\ expenses \in SessionLists
    /\ payees = IdleSessions(<<>>)
    /\ pc = IdleSessions("review")
    /\ idx = IdleSessions(0)
    /\ transactionsToAdd = IdleSessions(<<>>)
    /\ loading = IdleSessions(FALSE)
    /\ error = IdleSessions(NoError)
    /\ createReqs = IdleSessions({})
    /\ batchReqs = IdleSessions(<<>>)
    /\ route = IdleSessions(NoRoute)
    /\ processing = IdleSessions(FALSE)
    /\ fullReceiptUrl = IdleLinks
    /\ answer = IdleSessions(NoLast)
    /\ retried = IdleSessions(NoRetry)
    /\ deleteReqs = IdleSessions(<<>>)
    /\ apiCalls = [op \in ClientOps |-> NoCall]
    /\ parsedData = IdleParsedData
    /\ result = Pending
    /\ content = EmptyString
    /\ parsed = NotParsed

SpecCommit == InitCommit /\ [][CommitNext]_vars

\* the normalization alone, on any parsed response
InitExtract ==
    /\ files = {}
    /\ bootstrapped = TRUE
    /\ uuidCount = 0
    /\ last = NoLast
    /\ accepted = {}
    /\ lastDeleted = EmptyString
    /\ payeeStore = <<>>
    /\ expenses = IdleSessions(<<>>)
    /\ payees = IdleSessions(<<>>)
    /\ pc = IdleSessions("review")
    /\ idx = IdleSessions(0)
    /\ transactionsToAdd = IdleSessions(<<>>)
    /\ loading = IdleSessions(FALSE)
    /\ error = IdleSessions(NoError)
    /\ createReqs = IdleSessions({})
    /\ batchReqs = IdleSessions(<<>>)
    /\ route = IdleSessions(NoRoute)
    /\ processing = IdleSessions(FALSE)
    /\ fullReceiptUrl = IdleLinks
    /\ answer = IdleSessions(NoLast)
    /\ retried = IdleSessions(NoRetry)
    /\ deleteReqs = IdleSessions(<<>>)
    /\ apiCalls = [op \in ClientOps |-> NoCall]
    /\ parsedData \in ParsedInputs
    /\ result = Pending
    /\ content = EmptyString
    /\ parsed = NotParsed

SpecExtract == InitExtract /\ [][ExtractNext]_vars

\* the JSON extraction alone, on any answer of the model (the empty text is
\* the answer without content)
InitParse ==
    /\ files = {}
    /\ bootstrapped = TRUE
    /\ uuidCount = 0
    /\ last = NoLast
    /\ accepted = {}
    /\ lastDeleted = EmptyString
    /\ payeeStore = <<>>
    /\ expenses = IdleSessions(<<>>)
    /\ payees = IdleSessions(<<>>)
    /\ pc = IdleSessions("review")
    /\ idx = IdleSessions(0)
    /\ transactionsToAdd = IdleSessions(<<>>)
    /\ loading = IdleSessions(FALSE)
    /\ error = IdleSessions(NoError)
    /\ createReqs = IdleSessions({})
    /\ batchReqs = IdleSessions(<<>>)
    /\ route = IdleSessions(NoRoute)
    /\ processing = IdleSessions(FALSE)
    /\ fullReceiptUrl = IdleLinks
    /\ answer = IdleSessions(NoLast)
    /\ retried = IdleSessions(NoRetry)
    /\ deleteReqs = IdleSessions(<<>>)
    /\ apiCalls = [op \in ClientOps |-> NoCall]
    /\ parsedData = IdleParsedData
    /\ result = Pending
    /\ content \in Contents
    /\ parsed = NotParsed

SpecParse == InitParse /\ [][ParseNext]_vars

\* the receipt API functions alone, on any response
InitClient ==
    /\ files = {}
    /\ bootstrapped = TRUE
    /\ uuidCount = 0
    /\ last = NoLast
    /\ accepted = {}
    /\ lastDeleted = EmptyString
    /\ payeeStore = <<>>
    /\ expenses = IdleSessions(<<>>)
    /\ payees = IdleSessions(<<>>)
    /\ pc = IdleSessions("review")
    /\ idx = IdleSessions(0)
    /\ transactionsToAdd = IdleSessions(<<>>)
    /\ loading = IdleSessions(FALSE)
    /\ error = IdleSessions(NoError)
    /\ createReqs = IdleSessions({})
    /\ batchReqs = IdleSessions(<<>>)
    /\ route = IdleSessions(NoRoute)
    /\ processing = IdleSessions(FALSE)
    /\ fullReceiptUrl = IdleLinks
    /\ answer = IdleSessions(NoLast)
    /\ retried = IdleSessions(NoRetry)
    /\ deleteReqs = IdleSessions(<<>>)
    /\ apiCalls = [op \in ClientOps |-> NoCall]
    /\ parsedData = IdleParsedData
    /\ result = Pending
    /\ content = EmptyString
    /\ parsed = NotParsed

SpecClient == InitClient /\ [][ClientNext]_vars

\* one session from its mount, over a store that holds an upload or none; the
\* route names the first upload's fileId or none, with or without accountId
InitSession ==
    /\ files \in SUBSET {[name |-> filename(<<"1">>, Anonymous, Uuid(1), ExtJpg),
                          bytes |-> "b1", size |-> 1]}
    /\ bootstrapped = TRUE
    /\ uuidCount = 1
    /\ last = NoLast
    /\ accepted = {}
    /\ lastDeleted = EmptyString
    /\ payeeStore \in InitialPayees
    /\ expenses = IdleSessions(<<>>)
    /\ payees = IdleSessions(<<>>)
    /\ pc = [s \in Sessions |-> IF s \in Reviewers THEN "mount" ELSE "idle"]
    /\ idx = IdleSessions(0)
    /\ transactionsToAdd = IdleSessions(<<>>)
    /\ loading = [s \in Sessions |-> s \in Reviewers]
    /\ error = IdleSessions(NoError)
    /\ createReqs = IdleSessions({})
    /\ batchReqs = IdleSessions(<<>>)
    /\ route \in [Sessions ->
                    {[fileId |-> f, accountId |-> a, categories |-> "cat1"] :
                        f \in {EmptyString,
                               FileIdOf(filename(<<"1">>, Anonymous, Uuid(1), ExtJpg))},
                        a \in {NoAccount, "acc1"}}]
    /\ \A s \in Sessions \ Reviewers : route[s] = NoRoute
    /\ processing = IdleSessions(FALSE)
    /\ fullReceiptUrl = IdleSessions(EmptyString)
    /\ answer = IdleSessions(NoLast)
    /\ retried = IdleSessions(NoRetry)
    /\ deleteReqs = IdleSessions(<<>>)
    /\ apiCalls = [op \in ClientOps |-> NoCall]
    /\ parsedData = IdleParsedData
    /\ result = Pending
    /\ content = EmptyString
    /\ parsed = NotParsed

SpecSession == InitSession /\ [][SessionNext]_vars

\* the same, where the screen's and the server's own steps are taken when
\* they can be; the model's API is held to nothing
SpecSessionFair ==
    /\ InitSession
    /\ [][SessionNext]_vars
    /\ \A s \in Reviewers :
           /\ WF_vars(Mount(s))
           /\ WF_vars(ServerHandles(s))
           /\ WF_vars(ClientReceives(s))

\* store, sessions and processor side by side
Init ==
    /\ files = {}
    /\ bootstrapped \in BOOLEAN
    /\ uuidCount = 0
    /\ last = NoLast
    /\ accepted = {}
    /\ lastDeleted = EmptyString
    /\ payeeStore \in InitialPayees
    /\ expenses \in SessionLists
    /\ payees = IdleSessions(<<>>)
    /\ pc = IdleSessions("review")
    /\ idx = IdleSessions(0)
    /\ transactionsToAdd = IdleSessions(<<>>)
    /\ loading = IdleSessions(FALSE)
    /\ error = IdleSessions(NoError)
    /\ createReqs = IdleSessions({})
    /\ batchReqs = IdleSessions(<<>>)
    /\ route = IdleSessions(NoRoute)
    /\ processing = IdleSessions(FALSE)
    /\ fullReceiptUrl = IdleLinks
    /\ answer = IdleSessions(NoLast)
    /\ retried = IdleSessions(NoRetry)
    /\ deleteReqs = IdleSessions(<<>>)
    /\ apiCalls = [op \in ClientOps |-> NoCall]
    /\ parsedData \in ParsedInputs
    /\ result = Pending
    /\ content = EmptyString
    /\ parsed = NotParsed

Next == StoreNext \/ CommitNext \/ ExtractNext \/ ParseNext

Spec == Init /\ [][Next]_vars

(***************************************************************************)
(* Properties                                                              *)
(***************************************************************************)
HasMissingAccount(s) ==
    \E i \in 1..Len(expenses[s]) : expenses[s][i].account = NoAccount

\* C1: commit is all-or-nothing for transactions: a session whose expense
\* list has an expense without account, at whatever position, never sends a
\* transactions-batch-update request, so no transaction is created.
C1_NoBatchWithoutAccount ==
    \A s \in Sessions :
        HasMissingAccount(s) =>
            /\ batchReqs[s] = <<>>
            /\ pc[s] \notin {"transactions-batch-update", "navigated"}

\* C1 witness: handleSave has rejected a list whose first expense has an
\* account and whose second has none.
C1_Witness ==
    \E s \in Sessions :
        /\ pc[s] = "error" /\ error[s] = AccountError
        /\ Len(expenses[s]) = 2
        /\ expenses[s][1].account # NoAccount
        /\ expenses[s][2].account = NoAccount

\* C2: a commit rejected for a missing account is rejected before any side
\* effect: it has sent no payee-create request and has added no payee to the
\* shared table.
C2_RejectedCommitHasNoSideEffect ==
    \A s \in Sessions :
        error[s] = AccountError =>
            /\ createReqs[s] = {}
            /\ \A k \in 1..Len(payeeStore) : payeeStore[k].by # s

\* C3: payee lookup-or-create is mutually exclusive per merchant name: two
\* commits never both create a payee for the same name.
C3_OnePayeePerName ==
    \A j, k \in 1..Len(payeeStore) :
        ( /\ payeeStore[j].by \in Sessions
          /\ payeeStore[k].by \in Sessions
          /\ payeeStore[j].by # payeeStore[k].by )
        => payeeStore[j].name # payeeStore[k].name

KnownMatches(s, merchant) ==
    {k \in 1..Len(payees[s]) : ToLowerCase(payees[s][k].name) = ToLowerCase(merchant)}

\* C4: payee reuse: for an expense without explicit payee whose merchant
\* equals, ignoring case, the name of a payee of the known collection, no
\* payee-create request is sent for it and its transaction carries the id of
\* such a known payee.
C4_PayeeReuse ==
    \A s \in Sessions : \A i \in 1..Len(expenses[s]) :
        LET expense == expenses[s][i] IN
        ( /\ pc[s] # "review"
          /\ expense.payee = NoPayee
          /\ expense.merchant # EmptyString
          /\ KnownMatches(s, expense.merchant) # {} )
        => /\ i \notin createReqs[s]
           /\ i <= Len(transactionsToAdd[s]) =>
                \E k \in KnownMatches(s, expense.merchant) :
                    transactionsToAdd[s][i].payee = payees[s][k].id

\* C4 witness: the known payee is "Cafe", the merchant "cafe", and the
\* transaction of that expense has been built with the known payee's id.
C4_Witness ==
    \E s \in Sessions :
        /\ Len(transactionsToAdd[s]) >= 1
        /\ expenses[s][1].payee = NoPayee
        /\ expenses[s][1].merchant = CafeLower
        /\ Len(payees[s]) = 1 /\ payees[s][1].name = Cafe
        /\ transactionsToAdd[s][1].payee = payees[s][1].id

\* C5: after a delete of a fileId answered ok, a retrieve of the same fileId,
\* with no file stored in between, answers file-not-found.
C5_DeleteThenRetrieveNotFound ==
    (last.op = "retrieve" /\ last.fileId = lastDeleted)
        => last.result = "file-not-found"

\* C6: the file that process, retrieve or delete selects for a fileId is one
\* whose name without extension equals that fileId.
C6_ExactResolution ==
    (last.op \in {"process", "retrieve", "delete"} /\ last.selected # EmptyString)
        => NameWithoutExt(last.selected) = last.fileId

\* C7: store/retrieve round trip: a retrieve with the fileId an upload
\* returned, while that upload's file is in the store and whatever else is,
\* answers ok with the uploaded bytes and the content type the extension
\* table gives for the stored file's extension.
C7_RoundTrip ==
    \A a \in accepted :
        (last.op = "retrieve" /\ last.fileId = a.fileId /\ a.name \in FileNames)
        => /\ last.result = "ok"
           /\ last.bytes = a.bytes
           /\ last.contentType = contentTypeMap(ToLowerCase(ExtName(a.name)))
           /\ last.contentType \in allowedMimes

\* C7 witness: an accepted upload has been retrieved by its fileId while the
\* store holds another file too.
C7_Witness ==
    /\ last.op = "retrieve" /\ last.result = "ok"
    /\ \E a \in accepted : a.fileId = last.fileId
    /\ Cardinality(files) >= 2

UploadRejections == {"invalid-file-type", "file-too-large", "invalid-file"}

\* C8: upload validation: an upload whose type is not allowed or whose size
\* exceeds the ceiling is rejected with a validation error, and after any
\* rejected upload the set of stored files is what it was before.
C8_UploadValidation ==
    last.op = "upload" =>
        /\ ( /\ last.part # NoPart
             /\ \/ last.part.mimetype \notin allowedMimes
                \/ last.part.size > MaxSizeMB )
           => last.result \in UploadRejections
        /\ last.result # "ok" => ~last.storeChanged

\* C9: the readiness check gates every operation: a request made while the
\* service is not bootstrapped is answered not-bootstrapped, leaves the set of
\* stored files unchanged and does not invoke the model.
C9_BootstrapGate ==
    (last.op # "none" /\ ~last.bootstrapped) =>
        /\ last.result = "not-bootstrapped"
        /\ ~last.storeChanged
        /\ ~last.modelInvoked

\* YYYY-MM-DD
IsIsoDate(v) ==
    /\ v.k = "string"
    /\ Len(v.s) = 10
    /\ \A i \in {1, 2, 3, 4, 6, 7, 9, 10} : v.s[i] \in Digits
    /\ v.s[5] = "-" /\ v.s[8] = "-"

IsNonNegativeInteger(v) == v.k = "number" /\ v.n >= 0 /\ v.n % 100 = 0

IsConfidence(v) == v.k = "number" /\ v.n >= 0 /\ v.n <= 100

\* C10: every expense of a result that process returns has a non-negative
\* integer amount, a date of the form YYYY-MM-DD and a confidence in [0, 1].
C10_ExpenseShapes ==
    result.status = "returned" =>
        \A i \in 1..Len(result.expenses) :
            /\ IsNonNegativeInteger(result.expenses[i].amount)
            /\ IsIsoDate(result.expenses[i].date)
            /\ IsConfidence(result.expenses[i].confidence)

\* index of the "}" that closes the "{" at a: the first index from a on where
\* as many braces have closed as have opened; 0 when there is none
ClosingBrace(t, a) ==
    LET depth(j) == Cardinality({i \in a..j : t[i] = "{"})
                    - Cardinality({i \in a..j : t[i] = "}"})
        ends == {j \in a..Len(t) : depth(j) = 0}
    IN  IF ends = {} THEN 0 ELSE CHOOSE j \in ends : \A k \in ends : j <= k

\* the first balanced object of t: from the first "{" that has a closing
\* brace to that brace; <<>> when t has none
FirstBalanced(t) ==
    LET starts == {a \in 1..Len(t) : t[a] = "{" /\ ClosingBrace(t, a) # 0}
    IN  IF starts = {} THEN EmptyString
        ELSE LET a == CHOOSE i \in starts : \A j \in starts : i <= j
             IN  SubSeq(t, a, ClosingBrace(t, a))

\* C11: response parsing extracts the first balanced JSON object of the
\* model's text: when that object is well-formed JSON, whatever prose stands
\* around it (braces in the prose after it included), it is what gets parsed
\* and the parsing succeeds; the parsing fails only when the text has no
\* object or its first object does not parse.
C11_FirstBalancedObject ==
    (parsed.status # "pending" /\ content # EmptyString) =>
        LET object == FirstBalanced(content) IN
        IF object # EmptyString /\ JSONParses(object)
        THEN parsed.status = "parsed" /\ parsed.jsonMatch = object
        ELSE parsed.status \in {"no-json-found", "syntax-error"}

\* C12: process is whole-or-nothing and read-only on the store: a process
\* request is answered either ok with a complete result or with an error and
\* no result, and in both cases, a parse failure included, the stored files
\* and their contents are what they were before the request.
C12_ProcessWholeOrNothing ==
    last.op = "process" =>
        /\ ~last.storeChanged
        /\ \/ last.result = "ok" /\ last.data.status = "returned"
           \/ last.result # "ok" /\ last.data = NoData

\* C12 witness: the model's answer held no JSON, the request over a stored
\* file was answered with the parse error.
C12_Witness ==
    /\ last.op = "process" /\ last.message = ParseMessage
    /\ last.selected \in FileNames

\* C13: normalization gives an expense the top-level merchant only when the
\* expense has no merchant of its own: an expense the model returned with a
\* non-empty merchant keeps it in the result, also when the top-level
\* merchant is present and different.
C13_OwnMerchantKept ==
    result.status = "returned" =>
        \A i \in 1..Len(result.expenses) :
            LET own == parsedData.expenses[i].merchant IN
            Truthy(own) => result.expenses[i].merchant = own

Present(v) == v.k # "undefined"

\* C14: for amount, date, categoryId, categoryName and confidence of every
\* expense, normalization returns the model's value unchanged when the field
\* is present (a present amount of 0 or confidence of 0 included) and the
\* default when it is missing: amount 0, the top-level date if present else
\* the current date, categoryId null, categoryName "Uncategorized",
\* confidence 0.5.
C14_PresentKeptMissingDefaulted ==
    result.status = "returned" =>
        \A i \in 1..Len(result.expenses) :
            LET raw == parsedData.expenses[i]
                out == result.expenses[i]
                keep(v, default) == IF Present(v) THEN v ELSE default
            IN  /\ out.amount = keep(raw.amount, JNum(0))
                /\ out.date = keep(raw.date, keep(parsedData.date, JStr(Today)))
                /\ out.categoryId = keep(raw.categoryId, JNull)
                /\ out.categoryName = keep(raw.categoryName, JStr(Uncategorized))
                /\ out.confidence = keep(raw.confidence, JNum(50))

\* C15: whenever process returns a result its expenses are a sequence; when
\* the model's object has no expenses field the sequence is empty, and an
\* absent totalAmount comes out as 0, an absent date or merchant as null.
C15_TopLevelDefaults ==
    result.status = "returned" =>
        /\ DOMAIN result.expenses = 1..Len(result.expenses)
        /\ parsedData.expensesKind = "undefined" => result.expenses = <<>>
        /\ ~Present(parsedData.totalAmount) => result.totalAmount = JNum(0)
        /\ ~Present(parsedData.date) => result.receiptDate = JNull
        /\ ~Present(parsedData.merchant) => result.merchant = JNull

\* C15 witness: the object had none of expenses, totalAmount, date and
\* merchant, and a result was returned.
C15_Witness ==
    /\ result.status = "returned"
    /\ parsedData.expensesKind = "undefined"
    /\ ~Present(parsedData.totalAmount)
    /\ ~Present(parsedData.date)
    /\ ~Present(parsedData.merchant)

\* C16: failure modes of process. For a request with fileId and categories
\* to a bootstrapped service: a fileId with no stored file is answered
\* file-not-found and missing credentials with the configuration error, both
\* without a call of the model; a call that fails or answers nothing with a
\* processing error; an answer that cannot be parsed with the parse error;
\* and none of these answers carries a result.
C16_FailureModes ==
    ( /\ last.op = "process" /\ last.bootstrapped
      /\ last.fileId # EmptyString /\ last.case.kind # "no-categories" )
    => LET stored     == \E n \in FileNames : NameWithoutExt(n) = last.fileId
           kind       == last.case.kind
           object     == FirstBalanced(last.case.content)
           unparsable == object = EmptyString \/ ~JSONParses(object)
       IN  /\ ~stored =>
                 /\ last.result = "file-not-found"
                 /\ ~last.modelInvoked /\ last.data = NoData
           /\ (stored /\ kind = "no-api-key") =>
                 /\ last.result # "ok" /\ last.message = ConfigMessage
                 /\ ~last.modelInvoked /\ last.data = NoData
           /\ (stored /\ kind = "call-rejects") =>
                 /\ last.result # "ok" /\ last.message = ApiMessage
                 /\ last.data = NoData
           /\ (stored /\ kind = "answer" /\ last.case.content = EmptyString) =>
                 /\ last.result # "ok" /\ last.message = NoAnswerMessage
                 /\ last.data = NoData
           /\ (stored /\ kind = "answer" /\ last.case.content # EmptyString /\ unparsable) =>
                 /\ last.result # "ok" /\ last.message = ParseMessage
                 /\ last.data = NoData

\* C19: all drafts of a commit go out as one batch: a commit sends at most
\* one transactions-batch-update request, which holds one addition for every
\* expense, in order, and no update or deletion, and which is sent only when
\* every expense is resolved (it has an account, and a payee if it has a
\* merchant); when the request fails no second one is sent, the failure is
\* the session's error and the expense list is as it was.
C19_OneBatch ==
    \A s \in Sessions :
        /\ Len(batchReqs[s]) <= 1
        /\ Len(batchReqs[s]) = 1 =>
             LET req == batchReqs[s][1] IN
             /\ req.updated = <<>> /\ req.deleted = <<>>
             /\ Len(req.added) = Len(expenses[s])
             /\ \A i \in 1..Len(expenses[s]) :
                    LET expense == expenses[s][i] IN
                    /\ req.added[i].account = expense.account
                    /\ req.added[i].amount = expense.amount
                    /\ req.added[i].date = expense.date
                    /\ req.added[i].category = expense.categoryId
                    /\ expense.account # NoAccount
                    /\ expense.merchant # EmptyString => req.added[i].payee # NoPayee
                    /\ expense.payee # NoPayee => req.added[i].payee = expense.payee
        /\ error[s] = BatchError =>
             /\ pc[s] = "error" /\ ~loading[s]
             /\ Len(batchReqs[s]) = 1

\* C19 witness: a batch of two transactions, one of them with a payee
\* created on the way, was sent and failed.
C19_Witness ==
    \E s \in Sessions :
        /\ error[s] = BatchError
        /\ Len(batchReqs[s]) = 1 /\ Len(batchReqs[s][1].added) = 2
        /\ createReqs[s] # {}

\* C17: every extraction request eventually completes: a session that has
\* started an extraction eventually leaves the processing state, to the
\* review or to the error state, even if the model never answers (a timeout
\* on the model's call ends the wait with a processing error).
C17_ExtractionCompletes ==
    \A s \in Reviewers : processing[s] ~> ~processing[s]

\* C18: in the error state Retry re-executes the stage that failed: after a
\* failed extraction it starts the extraction again, after a failed commit it
\* starts the commit again, on the expense list as the user left it, not the
\* extraction.
C18_RetryReRunsFailedStage ==
    \A s \in Reviewers :
        retried[s].failed \in {"extraction", "commit"} =>
            retried[s].ran = retried[s].failed

\* C20: the receipt link that commit writes into a transaction's notes
\* leads back to the stored receipt: a retrieve of the link of a session's
\* transaction, while the file of the session's fileId is in the store, is
\* answered ok with that file's bytes.
C20_LinkResolves ==
    \A s \in Reviewers :
        \A f \in files :
            ( /\ last.op = "retrieve"
              /\ batchReqs[s] # <<>>
              /\ last.fileId = LinkFileId(fullReceiptUrl[s])
              /\ FileIdOf(f.name) = route[s].fileId )
            => (last.result = "ok" /\ last.bytes = f.bytes)

\* C21: cancel is best-effort: pressed in a session with a fileId (and a
\* server URL) it sends exactly one DELETE request, for the session's
\* fileId; whatever the answer (deleted, not found, fetch rejected) the
\* session navigates away, and a failed delete never sets the error.
C21_CancelBestEffort ==
    /\ [](\A s \in Reviewers :
            /\ Len(deleteReqs[s]) <= 1
            /\ pc[s] = "delete-request" => deleteReqs[s] = <<route[s].fileId>>)
    /\ [][\A s \in Reviewers :
            /\ (pc[s] \in {"review", "error"} /\ route[s].fileId # EmptyString
                    /\ pc'[s] \in {"delete-request", "navigated"})
                  => /\ pc'[s] = "delete-request"
                     /\ deleteReqs'[s] = <<route[s].fileId>>
            /\ (pc[s] = "delete-request" /\ pc'[s] # pc[s])
                  => /\ pc'[s] = "navigated"
                     /\ error'[s] = error[s]
                     /\ deleteReqs'[s] = deleteReqs[s]]_vars

\* a session that was cancelled from the review view has navigated away
\* without error although deleteReceipt threw
C21_Witness ==
    \E s \in Reviewers :
        /\ pc[s] = "navigated" /\ error[s] = NoError
        /\ Len(expenses[s]) > 0
        /\ deleteReqs[s] = <<route[s].fileId>>
        /\ apiCalls["delete"].outcome.kind = "throws"

\* a number of the session (held in hundredths) that is a non-negative integer
IsAmount(n) == n >= 0 /\ n % 100 = 0

\* C22: the amount invariant holds through the whole session: whatever was
\* extracted and whatever updates were made, every expense of the list has
\* a non-negative integer amount, and so has every transaction of every
\* transactions-batch-update request the session sends.
C22_AmountInvariant ==
    \A s \in Reviewers :
        /\ \A i \in 1..Len(expenses[s]) : IsAmount(expenses[s][i].amount)
        /\ \A k \in 1..Len(batchReqs[s]) : \A i \in 1..Len(batchReqs[s][k].added) :
               IsAmount(batchReqs[s][k].added[i].amount)

\* C23: the 0.8 threshold is advisory only: an expense carries the warning
\* exactly when its confidence is below 0.8; Save is open exactly when the
\* list is not empty and every expense has an account, flagged or not; and
\* the transactions of a request carry nothing of the confidence.
C23_ConfidenceAdvisory ==
    \A s \in Reviewers :
        /\ \A i \in 1..Len(expenses[s]) :
               lowConfidence(expenses[s][i]) <=> expenses[s][i].confidence < 80
        /\ pc[s] = "review" =>
               (ENABLED PressSave(s) <=>
                    /\ Len(expenses[s]) > 0
                    /\ \A i \in 1..Len(expenses[s]) : expenses[s][i].account # NoAccount)
        /\ \A k \in 1..Len(batchReqs[s]) : \A i \in 1..Len(batchReqs[s][k].added) :
               DOMAIN batchReqs[s][k].added[i] =
                   {"account", "date", "amount", "payee", "category", "notes", "cleared"}

\* a list whose expenses are all flagged has been committed
C23_Witness ==
    \E s \in Reviewers :
        /\ pc[s] = "navigated" /\ Len(batchReqs[s]) = 1 /\ deleteReqs[s] = <<>>
        /\ Len(batchReqs[s][1].added) = Len(expenses[s])
        /\ \A i \in 1..Len(expenses[s]) : lowConfidence(expenses[s][i])

\* C24: uploadReceipt, processReceipt and deleteReceipt return normally
\* only when fetch resolved with a success status and the body is an
\* envelope whose status is 'ok'; in every other case (fetch rejected,
\* non-success status, body that is no JSON or null, status missing or not
\* 'ok') they throw, with the message of their catch block.
C24_ClientEnvelope ==
    \A op \in ClientOps :
        LET r == apiCalls[op].response
            out == apiCalls[op].outcome
        IN  out.kind # "none" =>
               /\ out.kind \in {"returns", "throws"}
               /\ out.kind = "returns" <=>
                      /\ r.fetch = "resolved" /\ r.ok
                      /\ r.json = "object" /\ r.status = "ok"
               /\ out.kind = "throws" =>
                      Len(out.message) = 2 /\ out.message[1] = FailedPrefix(op)

\* each of the three functions has thrown on a success status whose
\* envelope says 'error'
C24_Witness ==
    \A op \in ClientOps :
        /\ apiCalls[op].response.ok /\ apiCalls[op].response.status = "error"
        /\ apiCalls[op].outcome.kind = "throws"

\* C25: seeding: when an extraction succeeds the list becomes one
\* EditableExpense per extracted expense, in the same order, with the
\* expense's amount, date, categoryId, categoryName, merchant, note and
\* confidence, the default account of the route if there is one and no
\* account otherwise, no payee, and ids that differ within the list.
C25_Seeding ==
    /\ [](\A s \in Reviewers : \A i, j \in 1..Len(expenses[s]) :
            expenses[s][i].id = expenses[s][j].id => i = j)
    /\ [][\A s \in Reviewers :
            (processing[s] /\ ~processing'[s] /\ Extracted(answer'[s])) =>
                LET extracted == answer'[s].data.expenses
                    seeded    == expenses'[s]
                IN  /\ Len(seeded) = Len(extracted)
                    /\ \A i \in 1..Len(seeded) :
                           /\ seeded[i].amount = Plain(extracted[i].amount)
                           /\ seeded[i].date = Plain(extracted[i].date)
                           /\ seeded[i].categoryId = Plain(extracted[i].categoryId)
                           /\ seeded[i].categoryName = Plain(extracted[i].categoryName)
                           /\ seeded[i].merchant = Plain(extracted[i].merchant)
                           /\ seeded[i].note = Plain(extracted[i].note)
                           /\ seeded[i].confidence = Plain(extracted[i].confidence)
                           /\ seeded[i].account = route[s].accountId
                           /\ seeded[i].payee = NoPayee]_vars

\* a receipt of two expenses has been seeded in a session opened with a
\* default account
C25_Witness ==
    \E s \in Reviewers :
        /\ pc[s] = "review" /\ answer[s].result = "ok" /\ route[s].accountId = "acc1"
        /\ Len(expenses[s]) = 2 /\ Len(answer[s].data.expenses) = 2
        /\ expenses[s][1].amount = -500 /\ expenses[s][2].merchant = CafeLower
        /\ \A i \in 1..2 : expenses[s][i].account = "acc1" /\ expenses[s][i].id = i - 1

\* C26: update(expenseId, field, value) on the list of the review view sets
\* exactly that field of the expense with that id to the value: its other
\* fields, the other expenses and the length and order of the list stay,
\* and an id of no expense leaves the list as it is.
C26_UpdateFrame ==
    \A s \in Reviewers :
        pc[s] = "review" =>
            \A id \in 0..Len(expenses[s]), field \in Fields :
                \A value \in FieldValues(field) :
                    LET before == expenses[s]
                        after  == updateExpense(before, id, field, value)
                    IN  /\ Len(after) = Len(before)
                        /\ \A i \in 1..Len(before) :
                               IF before[i].id = id
                               THEN /\ DOMAIN after[i] = DOMAIN before[i]
                                    /\ after[i][field] = value
                                    /\ \A f \in DOMAIN before[i] \ {field} :
                                           after[i][f] = before[i][f]
                               ELSE after[i] = before[i]
                        /\ (\A i \in 1..Len(before) : before[i].id # id) => after = before

\* in a session opened without default account, an update has given one of
\* two expenses its account and the other has none
C26_Witness ==
    \E s \in Reviewers :
        /\ pc[s] = "review" /\ route[s].accountId = NoAccount /\ Len(expenses[s]) = 2
        /\ expenses[s][1].account = NoAccount /\ expenses[s][2].account = "acc1"
        /\ expenses[s][1].amount = -500 /\ expenses[s][2].amount = 0

\* the session's commit has sent its request, or the request was answered
\* and the session has navigated to the account
Committing(s) ==
    /\ Len(batchReqs[s]) > 0
    /\ \/ pc[s] = "transactions-batch-update"
       \/ pc[s] = "navigated" /\ deleteReqs[s] = <<>>

\* C27: transaction assembly: the request a commit sends has one
\* transaction per expense of the list, in list order, each with the
\* account, date, amount and category the expense has at the commit (edited
\* or not), with the session's link to the receipt of its fileId as notes,
\* and cleared false.
C27_TransactionAssembly ==
    [][\A s \in Reviewers :
          batchReqs'[s] # batchReqs[s] =>
              LET added == batchReqs'[s][Len(batchReqs'[s])].added IN
              /\ Len(batchReqs'[s]) = Len(batchReqs[s]) + 1
              /\ Len(added) = Len(expenses[s])
              /\ \A i \in 1..Len(added) :
                     /\ added[i].account = expenses[s][i].account
                     /\ added[i].date = expenses[s][i].date
                     /\ added[i].amount = expenses[s][i].amount
                     /\ added[i].category = expenses[s][i].categoryId
                     /\ added[i].notes = fullReceiptUrl[s]
                     /\ StartsWith(added[i].notes, getReceiptUrl(route[s].fileId, ServerUrl))
                     /\ added[i].cleared = FALSE]_vars

\* a commit of two expenses, one with a typed amount, has been answered
C27_Witness ==
    \E s \in Reviewers :
        /\ pc[s] = "navigated" /\ Committing(s) /\ route[s].accountId = NoAccount
        /\ Len(batchReqs[s][1].added) = 2
        /\ batchReqs[s][1].added[1].amount = amountToInteger([whole |-> 5, cents |-> 0])
        /\ batchReqs[s][1].added[2].amount = 0
        /\ batchReqs[s][1].added[2].account = "acc1"

\* C28: payee resolution runs only for an expense without explicit payee
\* and with a merchant: payee-create is sent for such expenses only; an
\* expense with an explicit payee has that payee in its transaction,
\* whatever its merchant and whatever payees exist; an expense without
\* payee and without merchant has a transaction without payee.
C28_PayeeResolutionScope ==
    \A s \in Sessions :
        /\ \A i \in createReqs[s] :
               expenses[s][i].payee = NoPayee /\ expenses[s][i].merchant # EmptyString
        /\ \A k \in 1..Len(batchReqs[s]) : \A i \in 1..Len(batchReqs[s][k].added) :
               LET expense == expenses[s][i]
                   draft   == batchReqs[s][k].added[i]
               IN  /\ expense.payee # NoPayee => draft.payee = expense.payee
                   /\ (expense.payee = NoPayee /\ expense.merchant = EmptyString)
                         => draft.payee = NoPayee

\* a commit over an empty payee table has sent an expense with an explicit
\* payee and a merchant, and one with neither, without a payee-create
C28_Witness ==
    \E s \in Sessions :
        /\ payeeStore = <<>> /\ createReqs[s] = {} /\ Len(batchReqs[s]) = 1
        /\ Len(expenses[s]) = 2
        /\ expenses[s][1].payee = "p0" /\ expenses[s][1].merchant = Cafe
        /\ expenses[s][2].payee = NoPayee /\ expenses[s][2].merchant = EmptyString
        /\ batchReqs[s][1].added[1].payee = "p0"
        /\ batchReqs[s][1].added[2].payee = NoPayee

\* C29: within one commit, expenses without explicit payee whose merchant
\* names are equal ignoring case, and equal to no known payee's, cause one
\* payee-create request for that name, and their transactions carry one
\* payee id.
C29_OneCreatePerNameInCommit ==
    \A s \in Sessions :
        /\ \A i, j \in createReqs[s] :
               ToLowerCase(expenses[s][i].merchant) = ToLowerCase(expenses[s][j].merchant)
                   => i = j
        /\ \A k \in 1..Len(batchReqs[s]) : \A i, j \in 1..Len(batchReqs[s][k].added) :
               (/\ NeedsPayee(expenses[s][i]) /\ NeedsPayee(expenses[s][j])
                /\ ToLowerCase(expenses[s][i].merchant) = ToLowerCase(expenses[s][j].merchant))
                   => batchReqs[s][k].added[i].payee = batchReqs[s][k].added[j].payee

\* C30: a delete request to the bootstrapped service for a fileId that
\* matches no file is answered file-not-found and leaves the store as it
\* is; a delete answered ok has removed exactly one file, one that matched;
\* and when exactly one file matched, none matches afterwards, so that a
\* second delete of the same fileId is answered file-not-found.
C30_DeleteNotFound ==
    [][(/\ last'.op = "delete" /\ last'.bootstrapped
        /\ <<last, files>>' # <<last, files>>) =>
           LET fileId  == last'.fileId
               matches == {f \in files : GetMatch(f.name, fileId)}
           IN  /\ matches = {} => last'.result = "file-not-found" /\ files' = files
               /\ last'.result = "ok" =>
                      /\ files' \subseteq files
                      /\ Cardinality(files \ files') = 1
                      /\ files \ files' \subseteq matches
               /\ last'.result # "ok" => files' = files
               /\ Cardinality(matches) = 1 =>
                      /\ last'.result = "ok"
                      /\ \A f \in files' : ~GetMatch(f.name, fileId)]_vars

\* the second delete of a fileId whose one file the first delete removed
\* has been answered file-not-found, beside another file that stays
C30_Witness ==
    /\ last.op = "delete" /\ last.result = "file-not-found"
    /\ lastDeleted = last.fileId
    /\ \E a \in accepted : a.fileId = last.fileId /\ a.name \notin FileNames
    /\ Cardinality(files) = 1

\* handleSave of the session is running, from the press of Save to the
\* answer of its last send
InCommit(s) == pc[s] \in {"payee-create", "transactions-batch-update"}

\* C31: a commit sends no delete request and removes no file, whether it
\* ends in the navigation or in an error; after a commit that succeeded
\* the file the session's fileId was processed from is in the store, where
\* a retrieve by that fileId finds it.
C31_CommitKeepsReceipt ==
    /\ [][\A s \in Reviewers :
            (InCommit(s) \/ (pc[s] = "review" /\ InCommit(s)')
                         \/ (pc[s] = "review" /\ pc'[s] = "error"))
              => deleteReqs'[s] = deleteReqs[s] /\ files' = files]_vars
    /\ [](\A s \in Reviewers :
            (pc[s] = "navigated" /\ Len(batchReqs[s]) > 0 /\ deleteReqs[s] = <<>>)
              => /\ \E f \in files : GetMatch(f.name, route[s].fileId)
                 /\ ENABLED (Retrieve(route[s].fileId) /\ last'.result = "ok"))

\* a commit has been answered, no delete was sent and the file is stored
C31_Witness ==
    \E s \in Reviewers :
        /\ pc[s] = "navigated" /\ Len(batchReqs[s]) = 1 /\ deleteReqs[s] = <<>>
        /\ \E f \in files : NameWithoutExt(f.name) = route[s].fileId

\* the stored files each handler's files.find can select for a fileId; the
\* handler answers file-not-found when the set is empty and otherwise takes
\* the first of them in the directory's order
RetrieveFinds(fileId) == {n \in FileNames : GetMatch(n, fileId)}
DeleteFinds(fileId)   == {n \in FileNames : GetMatch(n, fileId)}
ProcessFinds(fileId)  == {n \in FileNames : ProcessMatch(n, fileId)}

\* C32: in every state of the store and for every fileId a request can
\* carry, process, retrieve and delete either all find no file or all
\* select among the same stored files.
C32_LookupAgreement ==
    \A fileId \in ReqIds :
        \/ RetrieveFinds(fileId) = {} /\ DeleteFinds(fileId) = {} /\ ProcessFinds(fileId) = {}
        \/ /\ ProcessFinds(fileId) # {}
           /\ RetrieveFinds(fileId) = ProcessFinds(fileId)
           /\ DeleteFinds(fileId) = ProcessFinds(fileId)

\* C35: whatever uploads, process, retrieve and delete requests came, and
\* in whatever readiness state, every stored file has an allowed image
\* extension, and no retrieve serves a stored file as
\* application/octet-stream.
C35_StoredExtensions ==
    /\ \A f \in files : ToLowerCase(ExtName(f.name)) \in validExtensions
    /\ (last.op = "retrieve" /\ last.result = "ok")
          => last.contentType # "application/octet-stream"

\* C33: an extraction is started only by the session's opening and by a
\* press of Retry; a change of the category directory while the review view
\* is shown starts none and leaves the view with its list.
C33_ExtractionStarts ==
    [][\A s \in Reviewers :
          /\ (~processing[s] /\ processing'[s])
                => pc[s] = "mount" \/ retried'[s].count = retried[s].count + 1
          /\ (pc[s] = "review" /\ route'[s].categories # route[s].categories)
                => pc'[s] = "review" /\ expenses'[s] = expenses[s]]_vars

\* C34: while a commit of the session is in flight (from the press of Save
\* until the commit fails or the session ends) the session is in the loading
\* state, whatever else happens, and the Save button cannot be pressed.
C34_OneCommitInFlight ==
    \A s \in Reviewers :
        InCommit(s) => loading[s] /\ View(s) = "loading" /\ ~SaveEnabled(s)

\* C36: the Save button is enabled only in the review state, with no
\* extraction and no commit in flight and no error shown, and only for a
\* list that is not empty and whose expenses all have an account; so no
\* commit of the session fails the account precondition and every batch it
\* sends has at least one transaction.
C36_SaveGate ==
    \A s \in Reviewers :
        /\ SaveEnabled(s) =>
               /\ ~processing[s]
               /\ pc[s] \notin {"process-request", "model-call", "process-response"}
               /\ ~InCommit(s)
               /\ error[s] = NoError
               /\ Len(expenses[s]) > 0
               /\ \A i \in 1..Len(expenses[s]) : ~MissingAccount(expenses[s][i])
        /\ error[s] # AccountError
        /\ \A k \in 1..Len(batchReqs[s]) : Len(batchReqs[s][k].added) > 0

====
